---- MODULE Spec2Model ----
(***************************************************************************)
(* A model of the recursive watch/tail engine of dg:                       *)
(*   - the per-file tailer       (src/src/watch/fs/file.rs)                *)
(*   - the agent's FileState     (src/src/agent/mod.rs, src/src/tokenize.rs)*)
(*   - the file-system watcher and the agent's event loop                  *)
(*                               (src/src/watch/fs/file_system.rs,         *)
(*                                src/src/agent/mod.rs)                    *)
(*   - the directory watcher     (src/src/watch/fs/directory.rs)           *)
(* Each component has its own specification (SpecTailer, SpecAgent,        *)
(* SpecFs, SpecDir); the variables of the other components stay at their   *)
(* initial value.                                                          *)
(*                                                                         *)
(* Scheduling.  Every stream is a task of a cooperative executor: a task   *)
(* is polled when one of the things it waits for is ready (a message or    *)
(* the closing of its channel, an expired timer, a finished I/O call) and  *)
(* again after it yielded an item (Stream::for_each polls until NotReady). *)
(* A poll is one atomic action.                                            *)
(***************************************************************************)
EXTENDS Integers, Sequences, FiniteSets, TLC

VARIABLES
    \* ---- tailer (PlainFileWatcher) and its file
    file,               \* the bytes of the tailed file
    signal_pending,     \* appends whose FileUpdated has not been sent yet
    event_rx,           \* PlainFileWatcher.event_rx: the queued FileUpdated
    tx_alive,           \* the Sender of event_rx has not been dropped
    current_position,   \* PlainFileWatcher.current_position
    read_file_content,  \* PlainFileWatcher.read_file_content
    is_updated,         \* PlainFileWatcher.is_updated
    chunks,             \* the FileContent values the stream has yielded
    tailer_state,       \* "running", "ended" (Ready(None)) or "failed" (Err)
    poll_result,        \* what the last poll returned
    elapsed,            \* history: the seconds that have passed at least since
                        \* the last read completed
    sent_while,         \* history: the FileUpdated sent that no read was
                        \* scheduled for yet: "idle" for those sent while
                        \* read_file_content was None, "busy" for the others
    \* ---- one FileState of the agent
    buf,                \* FileState.buf, the carry buffer
    is_binary,          \* FileState.is_binary
    cuckoo_filter,      \* FileState.cuckoo_filter, as the set of inserted words
    processed,          \* the chunks given to update_cuckoo_filter so far
    \* ---- one WordTokenizer and what it has been asked for
    tok_bytes,          \* WordTokenizer.bytes
    tok_position,       \* WordTokenizer.position
    tok_items,          \* the items next() has returned
    tok_done,           \* next() has returned None
    \* ---- one TextFileSubscriber (watch/file.rs) and its file
    sub_file,           \* the bytes of the subscribed file
    sub_position,       \* TextFileSubscriber.position
    sub_chunks,         \* the FileChunks check_content returned, each with the
                        \* bytes that were read for it
    sub_state,          \* "running" or "failed" (check_content returned Err)
    \* ---- file-system watcher, the tailers it emitted, the agent
    dir_event_rx,       \* FileSystemWatcher.dir_event_rx: queued DirectoryEvents
    dir_events_sent,    \* how many DirectoryEvents the directory watchers sent
    watching_files,     \* FileSystemWatcher.watching_files: path -> channel, 0 = no entry
    watched_dirs,       \* the directories FileSystemWatcher::watch spawned a watcher for
    terminated_dirs,    \* the directories whose spawned watcher has terminated
    existing_dirs,      \* the directories of DirPaths that exist
    tailers,            \* every FileWatcher emitted, by channel number
    files,              \* Agent.files: path -> FileState
    file_event_rx,      \* Agent.file_event_rx: queued FileEvents
    filter_log,         \* per FileState ever created: the chunks applied to its filter
    fs_last,            \* what the last handle_dir_event did
    \* ---- one directory watcher, its directory and the notification service
    dir_entries,        \* the names that exist in the watched directory
    dir_exists,         \* the watched directory itself exists
    dir_ops,            \* how many times the directory was changed
    created_at,         \* per name: the stage of the listing when it was created
    watch_installed,    \* the service has installed the watch on the directory
    watcher_rx,         \* the WatcherEvents queued for DirectoryWatcher.watcher
    list_dir,           \* DirectoryWatcher.list_dir
    dir_emitted,        \* the DirectoryEvents the watcher's stream yielded
    dw_state,           \* "running", "terminated" (Ready(None)) or "failed" (Err)
    \* ---- the notification service (inotify_service.rs), its handles, the kernel
    svc_alive,          \* the service thread is in its loop
    command_rx,         \* InotifyService.command_rx: queued Commands
    watches,            \* InotifyService.watches: WatchDescriptor -> Watch
    raw_wd_map,         \* InotifyService.raw_wd_map: raw descriptor -> Vec of descriptors
    next_wd,            \* InotifyService.next_wd
    handles,            \* every WatchHandle created, by number
    kernel_watches,     \* the kernel's watches: raw descriptor -> path and mask
    kernel_next_raw,    \* the raw descriptor the kernel hands out next
    gone_paths,         \* the watched paths that were deleted
    raw_events,         \* the kernel events not yet read by the service
    raw_events_sent     \* how many kernel events were produced

tailerVars == <<file, signal_pending, event_rx, tx_alive, current_position,
                read_file_content, is_updated, chunks, tailer_state,
                poll_result, elapsed, sent_while>>

agentVars == <<buf, is_binary, cuckoo_filter, processed>>

tokVars == <<tok_bytes, tok_position, tok_items, tok_done>>

subVars == <<sub_file, sub_position, sub_chunks, sub_state>>

fsVars == <<dir_event_rx, dir_events_sent, watching_files, watched_dirs,
            terminated_dirs, existing_dirs, tailers, files, file_event_rx, filter_log, fs_last>>

dirVars == <<dir_entries, dir_exists, dir_ops, created_at, watch_installed,
             watcher_rx, list_dir, dir_emitted, dw_state>>

svcVars == <<svc_alive, command_rx, watches, raw_wd_map, next_wd, handles,
             kernel_watches, kernel_next_raw, gone_paths, raw_events,
             raw_events_sent>>

vars == <<tailerVars, agentVars, tokVars, subVars, fsVars, dirVars, svcVars>>

(***************************************************************************)
(* Bounds of the model.                                                    *)
(***************************************************************************)
\* the file grows to at most this many bytes
MaxFileLen == 3
\* at most this many FileUpdated are queued (or on their way) at a time
MaxQueue == 2
\* the read buffer of ReadFileContent, scaled down from 1024 * 1024 so that
\* a read can fill it
READ_BUFFER_SIZE == 2

MIN_READ_CONTENT_INTERVAL == 60

\* what a writer appends to the text f: 'a', U+00E9 (0xC3 0xA9) at once, or
\* U+00E9 in two writes, the lead byte 0xC3 first
Writes(f) ==
    IF f /= <<>> /\ f[Len(f)] = 195
    THEN {<<169>>}
    ELSE {<<97>>, <<195>>, <<195, 169>>}

Min(a, b) == IF a < b THEN a ELSE b

\* FileState::new
IdleAgent ==
    /\ buf = <<>>
    /\ is_binary = FALSE
    /\ cuckoo_filter = {}
    /\ processed = <<>>

\* no WordTokenizer is run in the specifications of the other components
IdleTokenizer ==
    /\ tok_bytes = <<>>
    /\ tok_position = 0
    /\ tok_items = <<>>
    /\ tok_done = FALSE

\* no TextFileSubscriber is run in the specifications of the other components
IdleSubscriber ==
    /\ sub_file = <<>>
    /\ sub_position = 0
    /\ sub_chunks = <<>>
    /\ sub_state = "running"

\* the paths of the model: one regular file and one directory under the root
FilePaths == {"root/d.txt", "root/sub/c.txt"}
DirPaths == {"root/sub"}
Root == "root"

\* the directory an entry lies in
Parent(path) == IF path = "root/sub/c.txt" THEN "root/sub" ELSE Root

\* at most this many FileWatchers are emitted
MaxTailers == 2
\* the directory watchers send at most this many DirectoryEvents
MaxDirEvents == 2
\* one tailer yields at most this many chunks
MaxTailerChunks == 1

\* FileSystemWatcher::new and Agent::new
InitFs ==
    /\ dir_event_rx = <<>>
    /\ dir_events_sent = 0
    /\ watching_files = [p \in FilePaths |-> 0]
    /\ watched_dirs = {Root}
    /\ terminated_dirs = {}
    /\ existing_dirs = {}
    /\ tailers = <<>>
    /\ files = [p \in FilePaths |-> [present |-> FALSE]]
    /\ file_event_rx = <<>>
    /\ filter_log = <<>>
    /\ fs_last = "none"

\* the names an entry of the watched directory can have; "sub" is a directory
Names == {"a", "sub"}
IsDir(name) == name = "sub"

\* the watched directory is changed at most this many times
MaxDirOps == 3

\* DirectoryWatcher::new leaves list_dir empty
NoListing == [stage |-> "none"]
\* ListDirectory::new: the read_dir call is handed to the I/O task queue
ListDirectoryNew == [stage |-> "io"]
ListDirLaunchedAtNew == [stage |-> "io"]
DirectoryWatcherNewListDir == NoListing

\* DirectoryWatcher::new; the directory holds nothing or one file
InitDirWith(initial) ==
    /\ dir_entries \in initial
    /\ dir_exists = TRUE
    /\ dir_ops = 0
    /\ created_at = [n \in Names |-> "start"]
    /\ watch_installed = FALSE
    /\ watcher_rx = <<>>
    /\ list_dir = DirectoryWatcherNewListDir
    /\ dir_emitted = <<>>
    /\ dw_state = "running"

InitDir == InitDirWith({{}, {"a"}})
IdleDir == InitDirWith({{}})

\* a map without entries
EmptyMap == [x \in {} |-> x]

\* at most this many WatchHandles are created
MaxHandles == 2
\* the kernel produces at most this many events
MaxRawEvents == 1

\* InotifyService::new: no watch, no command, the kernel has no watch
InitSvc ==
    /\ svc_alive = TRUE
    /\ command_rx = <<>>
    /\ watches = EmptyMap
    /\ raw_wd_map = EmptyMap
    /\ next_wd = 0
    /\ handles = <<>>
    /\ kernel_watches = EmptyMap
    /\ kernel_next_raw = 1
    /\ gone_paths = {}
    /\ raw_events = <<>>
    /\ raw_events_sent = 0

\* a step of the tailer leaves the other components alone
TailerOnly == UNCHANGED <<agentVars, tokVars, subVars, fsVars, dirVars, svcVars>>

(***************************************************************************)
(* The tailer: PlainFileWatcher and ReadFileContent.                       *)
(***************************************************************************)
\* Option::None of read_file_content
NoRead == [stage |-> "none"]

\* ReadFileContent::new: the timer runs, no I/O call yet
ReadFileContentNew(offset, wait) ==
    [stage |-> "wait", offset |-> offset, wait |-> wait]

\* the closure given to async_call: seek to offset, read up to
\* READ_BUFFER_SIZE bytes, eof when the buffer was not filled
ReadClosure(f, offset) ==
    LET avail == IF offset < Len(f) THEN Len(f) - offset ELSE 0
        read_size == Min(READ_BUFFER_SIZE, avail)
    IN  [offset |-> offset,
         data |-> SubSeq(f, offset + 1, offset + read_size),
         eof |-> read_size < READ_BUFFER_SIZE]

\* PlainFileWatcher::new
InitTailer ==
    /\ file \in {<<>>, <<97>>}
    /\ signal_pending = 0
    /\ event_rx = <<>>
    /\ tx_alive = TRUE
    /\ current_position = 0
    /\ read_file_content = ReadFileContentNew(0, 0)
    /\ is_updated = FALSE
    /\ chunks = <<>>
    /\ tailer_state = "running"
    /\ poll_result = "NotReady"
    /\ elapsed = 0
    /\ sent_while = {}

\* a writer appends bytes; the kernel will report MODIFY
FileAppend ==
    /\ \E w \in Writes(file) :
          /\ Len(file) + Len(w) <= MaxFileLen
          /\ file' = file \o w
    /\ signal_pending < MaxQueue
    /\ signal_pending' = signal_pending + 1
    /\ UNCHANGED <<event_rx, tx_alive, current_position, read_file_content,
                   is_updated, chunks, tailer_state, poll_result,
                   elapsed, sent_while>>
    /\ TailerOnly

\* FileSystemWatcher::handle_dir_event, Updated of a mapped path: send FileUpdated
SendFileUpdated ==
    /\ tx_alive
    /\ tailer_state = "running"
    /\ Len(event_rx) < MaxQueue
    /\ \/ /\ signal_pending > 0
          /\ signal_pending' = signal_pending - 1
       \/ /\ signal_pending = 0      \* an Updated without new bytes
          /\ UNCHANGED signal_pending
    /\ event_rx' = Append(event_rx, "FileUpdated")
    /\ sent_while' = sent_while \cup
           {IF read_file_content.stage = "none" THEN "idle" ELSE "busy"}
    /\ UNCHANGED <<file, tx_alive, current_position, read_file_content,
                   is_updated, chunks, tailer_state, poll_result, elapsed>>
    /\ TailerOnly

\* FileSystemWatcher::handle_dir_event, Removed: the Sender is dropped
DropSender ==
    /\ tx_alive
    /\ tx_alive' = FALSE
    /\ signal_pending' = 0
    /\ UNCHANGED <<file, event_rx, current_position, read_file_content,
                   is_updated, chunks, tailer_state, poll_result,
                   elapsed, sent_while>>
    /\ TailerOnly

\* the Timeout of ReadFileContent expires
TimerFire ==
    /\ tailer_state = "running"
    /\ read_file_content.stage = "wait"
    /\ read_file_content' = [read_file_content EXCEPT !.stage = "expired"]
    /\ UNCHANGED <<file, signal_pending, event_rx, tx_alive, current_position,
                   is_updated, chunks, tailer_state, poll_result,
                   sent_while>>
    /\ elapsed' = IF read_file_content.wait > elapsed
                  THEN read_file_content.wait ELSE elapsed
    /\ TailerOnly

\* an I/O worker runs the closure of async_call
ReadExec ==
    /\ tailer_state = "running"
    /\ read_file_content.stage = "io"
    /\ \/ read_file_content' =
             [stage |-> "ready", ok |-> TRUE,
              content |-> ReadClosure(file, read_file_content.offset)]
       \/ read_file_content' = [stage |-> "ready", ok |-> FALSE]
    /\ UNCHANGED <<file, signal_pending, event_rx, tx_alive, current_position,
                   is_updated, chunks, tailer_state, poll_result,
                   sent_while>>
    /\ elapsed' = 0
    /\ TailerOnly

\* the task of the tailer has a reason to be polled
TailerNotified ==
    \/ poll_result = "Some"
    \/ event_rx /= <<>>
    \/ ~tx_alive
    \/ read_file_content.stage \in {"expired", "ready"}

\* event_rx.poll() is Ready(None): every queued message was received and the
\* sender is gone
EventRxClosedEarly == ~tx_alive
EventRxClosed == event_rx = <<>> /\ ~tx_alive

\* the position after a read: content.offset + content.data.len()
NextPositionBuf(content) == content.offset + READ_BUFFER_SIZE
NextPosition(content) == content.offset + Len(content.data)

\* the stream yields the content of a completed read: !content.data.is_empty()
YieldsContentAlways(content) == TRUE
YieldsContent(content) == content.data /= <<>>

\* PlainFileWatcher::start_read_file_content, as the pair
\* <<is_updated, read_file_content>> it leaves
StartReadFileContentNoWait(pos, wait) ==
    <<FALSE, ReadFileContentNew(pos, 0)>>
StartReadFileContent(pos, wait) ==
    <<FALSE, ReadFileContentNew(pos, wait)>>

\* PlainFileWatcher::poll
Poll ==
    /\ tailer_state = "running"
    /\ TailerNotified
    /\ IF EventRxClosed
       THEN \* Async::Ready(None)
            /\ tailer_state' = "ended"
            /\ poll_result' = "None"
            /\ UNCHANGED <<event_rx, is_updated, read_file_content,
                           current_position, chunks, sent_while>>
       ELSE LET upd1 == IF event_rx /= <<>> THEN TRUE ELSE is_updated
                s2 == IF read_file_content.stage = "none" /\ upd1
                      THEN StartReadFileContent(current_position,
                                                MIN_READ_CONTENT_INTERVAL)
                      ELSE <<upd1, read_file_content>>
                upd2 == s2[1]
                rfc2 == s2[2]
                \* the read of line 101 is scheduled in this poll
                starts == read_file_content.stage = "none" /\ upd1
            IN  /\ event_rx' = IF event_rx /= <<>> THEN Tail(event_rx) ELSE event_rx
                /\ sent_while' = IF ~starts THEN sent_while
                                  ELSE IF "idle" \in sent_while
                                       THEN sent_while \ {"idle"}
                                       ELSE {}
                /\ CASE rfc2.stage = "expired" ->
                          \* ReadFileContent::poll: the wait is over, async_call
                          /\ read_file_content' = [rfc2 EXCEPT !.stage = "io"]
                          /\ is_updated' = upd2
                          /\ poll_result' = "NotReady"
                          /\ UNCHANGED <<current_position, chunks, tailer_state>>
                     [] rfc2.stage = "ready" /\ ~rfc2.ok ->
                          /\ tailer_state' = "failed"
                          /\ poll_result' = "Err"
                          /\ read_file_content' = rfc2
                          /\ is_updated' = upd2
                          /\ UNCHANGED <<current_position, chunks>>
                     [] rfc2.stage = "ready" /\ rfc2.ok ->
                          LET content == rfc2.content
                              pos == NextPosition(content)
                              s3 == IF ~content.eof
                                    THEN StartReadFileContent(pos, 0)
                                    ELSE <<upd2, NoRead>>
                          IN  /\ current_position' = pos
                              /\ is_updated' = s3[1]
                              /\ read_file_content' = s3[2]
                              /\ IF YieldsContent(content)
                                 THEN /\ chunks' = Append(chunks, content)
                                      /\ poll_result' = "Some"
                                 ELSE /\ chunks' = chunks
                                      /\ poll_result' = "NotReady"
                              /\ UNCHANGED tailer_state
                     [] OTHER ->
                          /\ read_file_content' = rfc2
                          /\ is_updated' = upd2
                          /\ poll_result' = "NotReady"
                          /\ UNCHANGED <<current_position, chunks, tailer_state>>
    /\ UNCHANGED <<file, signal_pending, tx_alive, elapsed>>
    /\ TailerOnly

NextTailer ==
    \/ FileAppend
    \/ SendFileUpdated
    \/ DropSender
    \/ TimerFire
    \/ ReadExec
    \/ Poll

InitSpecTailer == InitTailer /\ IdleAgent /\ IdleTokenizer /\ IdleSubscriber
        /\ InitFs /\ IdleDir /\ InitSvc

SpecTailer == InitSpecTailer /\ [][NextTailer]_vars

\* the executor polls a notified task, timers expire, I/O calls finish, and
\* the file-system watcher sends the FileUpdated of every MODIFY it is given
FairSpecTailer ==
    /\ SpecTailer
    /\ WF_vars(Poll)
    /\ WF_vars(TimerFire)
    /\ WF_vars(ReadExec)
    /\ WF_vars(SendFileUpdated /\ signal_pending > 0)

(***************************************************************************)
(* The agent's FileState: WordTokenizer and update_cuckoo_filter.          *)
(***************************************************************************)
\* at most this many bytes in one chunk given to the agent
MaxChunkLen == 2
\* at most this many chunks are given to one FileState
MaxChunks == 2

\* ' ', 'a', the lead byte 0xC3 and the continuation byte 0xA9
AgentBytes == {32, 97, 195, 169}

\* the tailer of a file is not running in the specification of the agent
IdleTailer ==
    /\ file = <<>>
    /\ signal_pending = 0
    /\ event_rx = <<>>
    /\ tx_alive = TRUE
    /\ current_position = 0
    /\ read_file_content = ReadFileContentNew(0, 0)
    /\ is_updated = FALSE
    /\ chunks = <<>>
    /\ tailer_state = "running"
    /\ poll_result = "NotReady"
    /\ elapsed = 0
    /\ sent_while = {}

AgentOnly == UNCHANGED <<tailerVars, tokVars, subVars, fsVars, dirVars, svcVars>>

\* (b as char).is_alphanumeric() of a byte b: `b as char` is the code point
\* U+0000..U+00FF, so the Latin-1 letters and numbers count
IsAlphanumericChar(b) ==
    \/ b \in 48..57
    \/ b \in 65..90
    \/ b \in 97..122
    \/ b \in {170, 178, 179, 181, 185, 186, 188, 189, 190}
    \/ b \in 192..214
    \/ b \in 216..246
    \/ b \in 248..255

\* the predicate that finds the start of a word
IsWordStart(b) == IsAlphanumericChar(b) \/ (b \div 64) = 3

\* the predicate that finds the end of a word
IsWordEnd(b) == ~IsAlphanumericChar(b) /\ b < 128

\* iter().skip(from).position(pred): the 0-based index of the first byte at or
\* after `from` that satisfies the predicate, Len(bytes) when there is none
RECURSIVE FindWordStart(_, _)
FindWordStart(bytes, from) ==
    IF from >= Len(bytes) THEN Len(bytes)
    ELSE IF IsWordStart(bytes[from + 1]) THEN from
    ELSE FindWordStart(bytes, from + 1)

RECURSIVE FindWordEnd(_, _)
FindWordEnd(bytes, from) ==
    IF from >= Len(bytes) THEN Len(bytes)
    ELSE IF IsWordEnd(bytes[from + 1]) THEN from
    ELSE FindWordEnd(bytes, from + 1)

\* str::from_utf8 succeeds on the bytes from the 1-based index i on
RECURSIVE Utf8ValidFrom(_, _)
Utf8ValidFrom(d, i) ==
    IF i > Len(d) THEN TRUE
    ELSE LET b == d[i]
             cont(k) == i + k <= Len(d) /\ d[i + k] \in 128..191
         IN  IF b < 128 THEN Utf8ValidFrom(d, i + 1)
             ELSE IF b \in 194..223
                  THEN cont(1) /\ Utf8ValidFrom(d, i + 2)
             ELSE IF b \in 224..239
                  THEN /\ cont(1) /\ cont(2)
                       /\ (b = 224 => d[i + 1] >= 160)
                       /\ (b = 237 => d[i + 1] <= 159)
                       /\ Utf8ValidFrom(d, i + 3)
             ELSE IF b \in 240..244
                  THEN /\ cont(1) /\ cont(2) /\ cont(3)
                       /\ (b = 240 => d[i + 1] >= 144)
                       /\ (b = 244 => d[i + 1] <= 143)
                       /\ Utf8ValidFrom(d, i + 4)
             ELSE FALSE

FromUtf8Ok(d) == Utf8ValidFrom(d, 1)

\* WordTokenizer::next at `position` (0-based):
\* [some |-> FALSE] for None, else the item and the position after it
TokenizerNext(bytes, position) ==
    LET start == FindWordStart(bytes, position)
    IN  IF start = Len(bytes)
        THEN [some |-> FALSE]
        ELSE LET end == FindWordEnd(bytes, start + 1)
                 word == SubSeq(bytes, start + 1, end)
             IN  [some |-> TRUE, ok |-> FromUtf8Ok(word), start |-> start,
                  word |-> word, position |-> end]

\* self.cuckoo_filter.insert(w)
InsertWordDropped(filter, w) == filter
InsertWord(filter, w) == filter \cup {w}

\* the for loop of update_cuckoo_filter over WordTokenizer::new(&self.buf):
\* the filter, `end` and is_binary it leaves
RECURSIVE TokenizeLoop(_, _, _, _)
TokenizeLoop(bytes, position, filter, end) ==
    LET item == TokenizerNext(bytes, position)
    IN  IF ~item.some
        THEN [filter |-> filter, end |-> end, is_binary |-> FALSE]
        ELSE IF ~item.ok
        THEN [filter |-> filter, end |-> Len(bytes), is_binary |-> TRUE]
        ELSE TokenizeLoop(bytes, item.position, InsertWord(filter, item.word),
                          item.start + Len(item.word))

\* FileState::update_cuckoo_filter on the state st = [buf, is_binary, filter]
UpdateCuckooFilterNoLatch(st, data) ==
    LET b1 == st.buf \o data
        r == TokenizeLoop(b1, 0, st.filter, 0)
    IN  [buf |-> IF r.is_binary THEN <<>> ELSE SubSeq(b1, r.end + 1, Len(b1)),
         is_binary |-> st.is_binary \/ r.is_binary,
         filter |-> r.filter]
UpdateCuckooFilter(st, data) ==
    IF st.is_binary
    THEN st
    ELSE LET b1 == st.buf \o data
             r == TokenizeLoop(b1, 0, st.filter, 0)
         IN  [buf |-> IF r.is_binary THEN <<>>
                      ELSE SubSeq(b1, r.end + 1, Len(b1)),
              is_binary |-> r.is_binary,
              filter |-> r.filter]

\* the data of the chunks a tailer can yield: never empty
ChunkData ==
    UNION {[1..n -> AgentBytes] : n \in 1..MaxChunkLen}

\* Agent::handle_file_updated for a path that has a FileState
HandleFileUpdated ==
    /\ Len(processed) < MaxChunks
    /\ \E data \in ChunkData :
          LET st == UpdateCuckooFilter(
                        [buf |-> buf, is_binary |-> is_binary,
                         filter |-> cuckoo_filter], data)
          IN  /\ buf' = st.buf
              /\ is_binary' = st.is_binary
              /\ cuckoo_filter' = st.filter
              /\ processed' = Append(processed, data)
    /\ AgentOnly

NextAgent == HandleFileUpdated

InitSpecAgent == IdleTailer /\ IdleAgent /\ IdleTokenizer /\ IdleSubscriber
        /\ InitFs /\ IdleDir /\ InitSvc

SpecAgent == InitSpecAgent /\ [][NextAgent]_vars

(***************************************************************************)
(* WordTokenizer alone, over every short byte string.                      *)
(***************************************************************************)
\* at most this many bytes are given to WordTokenizer::new
MaxTokLen == 3

\* ' ', 'a', the lead byte 0xC3 and the continuation bytes 0xA9 and 0xAA;
\* 0xAA as char is U+00AA, which is alphanumeric
TokenBytes == {32, 97, 169, 170, 195}

TokenizerOnly ==
    UNCHANGED <<tailerVars, agentVars, subVars, fsVars, dirVars, svcVars>>

\* WordTokenizer::new on any byte string
InitTokenizer ==
    /\ tok_bytes \in UNION {[1..n -> TokenBytes] : n \in 0..MaxTokLen}
    /\ tok_position = 0
    /\ tok_items = <<>>
    /\ tok_done = FALSE

\* one call of WordTokenizer::next by the for loop that consumes the iterator
TokenizerStep ==
    /\ ~tok_done
    /\ LET item == TokenizerNext(tok_bytes, tok_position)
       IN  IF ~item.some
           THEN /\ tok_position' = Len(tok_bytes)
                /\ tok_done' = TRUE
                /\ UNCHANGED tok_items
           ELSE /\ tok_position' = item.position
                /\ tok_items' = Append(tok_items,
                                       [ok |-> item.ok, start |-> item.start,
                                        word |-> item.word])
                /\ UNCHANGED tok_done
    /\ UNCHANGED tok_bytes
    /\ TokenizerOnly

InitSpecTokenizer == IdleTailer /\ IdleAgent /\ InitTokenizer /\ IdleSubscriber
                        /\ InitFs /\ IdleDir /\ InitSvc

SpecTokenizer == InitSpecTokenizer /\ [][TokenizerStep]_vars

(***************************************************************************)
(* The tailer of one file together with the FileState of that file: the    *)
(* chunks the tailer yields reach handle_file_updated in their order.      *)
(***************************************************************************)
\* Agent::handle_file_updated with the next chunk of the tailer
AgentTakesChunk ==
    /\ Len(processed) < Len(chunks)
    /\ LET data == chunks[Len(processed) + 1].data
           st == UpdateCuckooFilter(
                     [buf |-> buf, is_binary |-> is_binary,
                      filter |-> cuckoo_filter], data)
       IN  /\ buf' = st.buf
           /\ is_binary' = st.is_binary
           /\ cuckoo_filter' = st.filter
           /\ processed' = Append(processed, data)
    /\ AgentOnly

NextTailAgent ==
    \/ NextTailer
    \/ AgentTakesChunk

InitSpecTailAgent == InitTailer /\ IdleAgent /\ IdleTokenizer /\ IdleSubscriber
        /\ InitFs /\ IdleDir /\ InitSvc

SpecTailAgent == InitSpecTailAgent /\ [][NextTailAgent]_vars

(***************************************************************************)
(* TextFileSubscriber::check_content (watch/file.rs): the read that trims  *)
(* the end of the buffer, over every short file.                           *)
(***************************************************************************)
\* at most this many bytes in the subscribed file
MaxSubFileLen == 3
\* the size of the buffer of check_content (1024 * 1024 in the code)
SubBufferSize == 2
\* check_content is called at most this many times
MaxSubReads == 2

\* 'a', the continuation byte 0xA9 and the lead bytes 0xC3 (of two bytes) and
\* 0xE2 (of three bytes)
SubBytes == {97, 169, 195, 226}

SubscriberOnly ==
    UNCHANGED <<tailerVars, agentVars, tokVars, fsVars, dirVars, svcVars>>

\* WatchedTextFile::subscribe on any file
InitSubscriber ==
    /\ sub_file \in UNION {[1..n -> SubBytes] : n \in 0..MaxSubFileLen}
    /\ sub_position = 0
    /\ sub_chunks = <<>>
    /\ sub_state = "running"

\* the while loop of check_content: the read_size it leaves
RECURSIVE TrimmedReadSize(_, _)
TrimmedReadSize(bytes, read_size) ==
    IF read_size = 0 THEN 0
    ELSE IF bytes[read_size] < 128 THEN read_size
    ELSE IF (bytes[read_size] \div 64) % 2 = 1 THEN read_size - 1
    ELSE TrimmedReadSize(bytes, read_size - 1)

\* TextFileSubscriber::check_content, called by poll when the timer expired
CheckContent ==
    /\ sub_state = "running"
    /\ Len(sub_chunks) < MaxSubReads
    /\ LET avail == Len(sub_file) - sub_position
           read == SubSeq(sub_file, sub_position + 1,
                          sub_position + Min(SubBufferSize, avail))
           read_size == TrimmedReadSize(read, Len(read))
           data == SubSeq(read, 1, read_size)
       IN  IF FromUtf8Ok(data)
           THEN /\ sub_chunks' = Append(sub_chunks,
                                        [offset |-> sub_position, data |-> data,
                                         read |-> read])
                /\ sub_position' = sub_position + read_size
                /\ UNCHANGED sub_state
           ELSE \* String::from_utf8 fails
                /\ sub_state' = "failed"
                /\ UNCHANGED <<sub_chunks, sub_position>>
    /\ UNCHANGED sub_file
    /\ SubscriberOnly

InitSpecSubscriber == IdleTailer /\ IdleAgent /\ IdleTokenizer /\ InitSubscriber
        /\ InitFs /\ IdleDir /\ InitSvc

SpecSubscriber == InitSpecSubscriber /\ [][CheckContent]_vars

(***************************************************************************)
(* The file-system watcher, the tailers it emits and the agent's loop.     *)
(* A tailer is kept as its channel and its stream state; what it reads is  *)
(* in SpecTailer.  Channel n belongs to tailers[n].                        *)
(***************************************************************************)
FsOnly == UNCHANGED <<tailerVars, agentVars, tokVars, subVars, dirVars, svcVars>>

DirectoryEvents ==
    [type : {"Updated", "Removed"}, path : FilePaths, is_dir : {FALSE}]
    \cup [type : {"Updated", "Removed"}, path : DirPaths, is_dir : {TRUE}]

\* the closure of FileSystemWatcher::watch: the watcher of a watched
\* directory yields an event about an entry of it, which is sent into
\* dir_event_tx; a directory exists from its Updated to its Removed
DirWatcherSend ==
    /\ dir_events_sent < MaxDirEvents
    /\ \E ev \in DirectoryEvents :
          /\ Parent(ev.path) \in watched_dirs \ terminated_dirs
          /\ dir_event_rx' = Append(dir_event_rx, ev)
          /\ existing_dirs' =
                IF ~ev.is_dir THEN existing_dirs
                ELSE IF ev.type = "Updated" THEN existing_dirs \cup {ev.path}
                ELSE existing_dirs \ {ev.path}
    /\ dir_events_sent' = dir_events_sent + 1
    /\ UNCHANGED <<watching_files, watched_dirs, terminated_dirs, tailers,
                   files, file_event_rx, filter_log, fs_last>>
    /\ FsOnly

\* the closure given to `then` in FileSystemWatcher::watch, as the events it
\* sends into dir_event_tx: it logs the result and sends nothing
WatchThen(root_dir) == <<>>

\* the watcher spawned for a directory terminates, with Ready(None) or with
\* an error: for_each is over and the closure given to `then` runs
DirWatcherTerminates ==
    /\ \E d \in watched_dirs \ terminated_dirs :
          /\ terminated_dirs' = terminated_dirs \cup {d}
          /\ dir_event_rx' = dir_event_rx \o WatchThen(d)
    /\ UNCHANGED <<dir_events_sent, watching_files, watched_dirs,
                   existing_dirs, tailers, files, file_event_rx, filter_log,
                   fs_last>>
    /\ FsOnly

\* the receiver of channel t exists: the stream of tailers[t] was not dropped
ReceiverAlive(t) == tailers[t].state = "running"

\* dropping the Sender of channel t (t = 0: there is none)
DropSenderOf(ts, t) ==
    IF t = 0 THEN ts ELSE [ts EXCEPT ![t].tx_alive = FALSE]

\* FileWatcher::new(path, file_event_rx)
FileWatcherNew(path) ==
    [path |-> path, rx |-> 0, tx_alive |-> TRUE, state |-> "running", pos |-> 0]

\* handle_dir_event, Updated { is_dir: false }: Some(file) is returned
EmitsFileWatcherAlways(path) == TRUE
EmitsFileWatcher(path) ==
    LET t == watching_files[path]
    IN  t = 0 \/ ~ReceiverAlive(t)

\* FileSystemWatcher::watch: DirectoryWatcher::new fails for a path that is
\* not a directory, otherwise the new watcher is spawned
WatchDirectorySkipped(dirs, path) == dirs
WatchDirectory(dirs, path) ==
    IF path \in existing_dirs THEN dirs \cup {path} ELSE dirs

\* FileSystemWatcher::poll takes one DirectoryEvent and handles it
\* (handle_dir_event); for a returned FileWatcher the body of the first loop
\* of Agent::poll inserts a new FileState and spawns the tailer
HandleDirEvent ==
    /\ dir_event_rx /= <<>>
    /\ dir_event_rx' = Tail(dir_event_rx)
    /\ LET ev == Head(dir_event_rx)
           path == ev.path
       IN  CASE ev.type = "Updated" /\ ev.is_dir ->
                  \* self.watch(&path)
                  /\ watched_dirs' = WatchDirectory(watched_dirs, path)
                  /\ fs_last' = IF path \in existing_dirs
                                THEN "watch" ELSE "watch_failed"
                  /\ UNCHANGED <<watching_files, tailers, files, filter_log>>
             [] ev.type = "Removed" /\ ev.is_dir ->
                  /\ fs_last' = "none"
                  /\ UNCHANGED <<watching_files, watched_dirs, tailers, files,
                                 filter_log>>
             [] ev.type = "Updated" /\ ~ev.is_dir ->
                  IF ~EmitsFileWatcher(path)
                  THEN \* file_event_tx.send(FileUpdated) succeeded
                       /\ tailers' = [tailers EXCEPT
                                        ![watching_files[path]].rx = @ + 1]
                       /\ fs_last' = "signal"
                       /\ UNCHANGED <<watching_files, watched_dirs, files,
                                      filter_log>>
                  ELSE /\ Len(tailers) < MaxTailers
                       /\ LET n == Len(tailers) + 1
                          IN  /\ tailers' =
                                    Append(DropSenderOf(tailers,
                                                        watching_files[path]),
                                           FileWatcherNew(path))
                              /\ watching_files' =
                                    [watching_files EXCEPT ![path] = n]
                              /\ files' = [files EXCEPT ![path] =
                                             [present |-> TRUE, id |-> n]]
                              /\ filter_log' = Append(filter_log, <<>>)
                       /\ fs_last' = IF watching_files[path] = 0
                                     THEN "new" ELSE "replaced"
                       /\ UNCHANGED watched_dirs
             [] ev.type = "Removed" /\ ~ev.is_dir ->
                  /\ tailers' = DropSenderOf(tailers, watching_files[path])
                  /\ watching_files' = [watching_files EXCEPT ![path] = 0]
                  /\ fs_last' = "removed"
                  /\ UNCHANGED <<watched_dirs, files, filter_log>>
    /\ terminated_dirs' =
          LET ev == Head(dir_event_rx)
          IN  IF ev.type = "Updated" /\ ev.is_dir /\ ev.path \in existing_dirs
              THEN terminated_dirs \ {ev.path}   \* a new watcher is spawned
              ELSE terminated_dirs
    /\ UNCHANGED <<dir_events_sent, existing_dirs, file_event_rx>>
    /\ FsOnly

\* one poll of the task spawned for tailers[t]: the stream is polled, a
\* yielded chunk is sent as FileEvent::Updated, and when the stream is over
\* (end or error) FileEvent::Deleted is sent
TailerPoll(t) ==
    /\ t \in 1..Len(tailers)
    /\ tailers[t].state = "running"
    /\ LET w == tailers[t]
           deleted == [type |-> "Deleted", path |-> w.path, from |-> t]
       IN  IF w.rx = 0 /\ ~w.tx_alive
           THEN \* Ready(None)
                /\ tailers' = [tailers EXCEPT ![t].state = "ended"]
                /\ file_event_rx' = Append(file_event_rx, deleted)
           ELSE LET rx1 == IF w.rx > 0 THEN w.rx - 1 ELSE 0
                IN  \/ \* NotReady
                       /\ tailers' = [tailers EXCEPT ![t].rx = rx1]
                       /\ UNCHANGED file_event_rx
                    \/ \* Ready(Some(content))
                       /\ w.pos < MaxTailerChunks
                       /\ tailers' = [tailers EXCEPT ![t].rx = rx1,
                                                     ![t].pos = @ + 1]
                       /\ file_event_rx' =
                             Append(file_event_rx,
                                    [type |-> "Updated", path |-> w.path,
                                     from |-> t, offset |-> w.pos])
                    \/ \* Err: a read failed
                       /\ tailers' = [tailers EXCEPT ![t].rx = rx1,
                                                     ![t].state = "failed"]
                       /\ file_event_rx' = Append(file_event_rx, deleted)
    /\ UNCHANGED <<dir_event_rx, dir_events_sent, watching_files, watched_dirs,
                   terminated_dirs, existing_dirs, files, filter_log, fs_last>>
    /\ FsOnly

\* Agent::handle_file_deleted
FilesRemoveKept(fl, path) == fl
FilesRemove(fl, path) == [fl EXCEPT ![path] = [present |-> FALSE]]

\* the second loop of Agent::poll takes one FileEvent: handle_file_event
HandleFileEvent ==
    /\ file_event_rx /= <<>>
    /\ file_event_rx' = Tail(file_event_rx)
    /\ LET ev == Head(file_event_rx)
       IN  IF ev.type = "Updated"
           THEN \* handle_file_updated
                /\ IF files[ev.path].present
                   THEN filter_log' =
                           [filter_log EXCEPT ![files[ev.path].id] =
                               Append(@, <<ev.from, ev.offset>>)]
                   ELSE UNCHANGED filter_log
                /\ UNCHANGED files
           ELSE \* handle_file_deleted
                /\ files' = FilesRemove(files, ev.path)
                /\ UNCHANGED filter_log
    /\ UNCHANGED <<dir_event_rx, dir_events_sent, watching_files, watched_dirs,
                   terminated_dirs, existing_dirs, tailers, fs_last>>
    /\ FsOnly

NextFs ==
    \/ DirWatcherSend
    \/ DirWatcherTerminates
    \/ HandleDirEvent
    \/ \E t \in 1..MaxTailers : TailerPoll(t)
    \/ HandleFileEvent

InitSpecFs == IdleTailer /\ IdleAgent /\ IdleTokenizer /\ IdleSubscriber
        /\ InitFs /\ IdleDir /\ InitSvc

SpecFs == InitSpecFs /\ [][NextFs]_vars

\* the executor runs the agent's task while an event is queued for it and
\* polls every tailer whose channel has a message or was closed
FairSpecFs ==
    /\ SpecFs
    /\ WF_vars(HandleDirEvent)
    /\ WF_vars(HandleFileEvent)
    /\ \A t \in 1..MaxTailers : WF_vars(TailerPoll(t))

(***************************************************************************)
(* One directory watcher.  The notification service installs the watch     *)
(* asked for in DirectoryWatcher::new and then sends StartWatching; from   *)
(* then on every change of the directory queues a Notified event.          *)
(***************************************************************************)
DirOnly == UNCHANGED <<tailerVars, agentVars, tokVars, subVars, fsVars, svcVars>>

StartWatching == [type |-> "StartWatching"]
RestartWatching == [type |-> "RestartWatching"]
Notified(mask, name) == [type |-> "Notified", mask |-> mask, name |-> name]

\* the mask of an event about the entry name
EntryMask(flag, name) == IF IsDir(name) THEN {flag, "ISDIR"} ELSE {flag}

\* the kernel queues an event only for an installed watch
Notify(rx, ev) == IF watch_installed THEN Append(rx, ev) ELSE rx

\* inotify.handle().watch(&path, mask) is carried out by the service
ServiceAddWatch ==
    /\ ~watch_installed
    /\ dir_exists
    /\ watch_installed' = TRUE
    /\ watcher_rx' = Append(watcher_rx, StartWatching)
    /\ UNCHANGED <<dir_entries, dir_exists, dir_ops, created_at, list_dir,
                   dir_emitted, dw_state>>
    /\ DirOnly

\* the service asks the watcher to start over
ServiceRestartWatching ==
    /\ watch_installed
    /\ dw_state = "running"
    /\ dir_ops < MaxDirOps
    /\ dir_ops' = dir_ops + 1
    /\ watcher_rx' = Append(watcher_rx, RestartWatching)
    /\ UNCHANGED <<dir_entries, dir_exists, created_at, watch_installed,
                   list_dir, dir_emitted, dw_state>>
    /\ DirOnly

DirCreate ==
    /\ dir_exists
    /\ dir_ops < MaxDirOps
    /\ \E name \in Names \ dir_entries :
          /\ dir_entries' = dir_entries \cup {name}
          /\ created_at' = [created_at EXCEPT ![name] = list_dir.stage]
          /\ watcher_rx' = Notify(watcher_rx,
                                  Notified(EntryMask("CREATE", name), name))
    /\ dir_ops' = dir_ops + 1
    /\ UNCHANGED <<dir_exists, watch_installed, list_dir, dir_emitted,
                   dw_state>>
    /\ DirOnly

DirModify ==
    /\ dir_exists
    /\ dir_ops < MaxDirOps
    /\ \E name \in dir_entries :
          /\ ~IsDir(name)
          /\ watcher_rx' = Notify(watcher_rx, Notified({"MODIFY"}, name))
    /\ dir_ops' = dir_ops + 1
    /\ UNCHANGED <<dir_entries, dir_exists, created_at, watch_installed,
                   list_dir, dir_emitted, dw_state>>
    /\ DirOnly

DirDelete ==
    /\ dir_exists
    /\ dir_ops < MaxDirOps
    /\ \E name \in dir_entries :
          /\ dir_entries' = dir_entries \ {name}
          /\ watcher_rx' = Notify(watcher_rx,
                                  Notified(EntryMask("DELETE", name), name))
    /\ dir_ops' = dir_ops + 1
    /\ UNCHANGED <<dir_exists, created_at, watch_installed, list_dir,
                   dir_emitted, dw_state>>
    /\ DirOnly

\* the watched directory, empty by now, is removed
DirDeleteSelf ==
    /\ dir_exists
    /\ watch_installed
    /\ dir_entries = {}
    /\ dir_ops < MaxDirOps
    /\ dir_exists' = FALSE
    /\ watcher_rx' = Notify(watcher_rx, Notified({"DELETE_SELF"}, "none"))
    /\ dir_ops' = dir_ops + 1
    /\ UNCHANGED <<dir_entries, created_at, watch_installed, list_dir,
                   dir_emitted, dw_state>>
    /\ DirOnly

\* the sequences that hold every element of the set s once
RECURSIVE Orderings(_)
Orderings(s) ==
    IF s = {} THEN {<<>>}
    ELSE UNION {{<<x>> \o o : o \in Orderings(s \ {x})} : x \in s}

\* the closure of ListDirectory::new runs on the I/O task queue: read_dir
\* and the collection of its entries, or an error
ListExec ==
    /\ list_dir.stage = "io"
    /\ \/ /\ dir_exists
          /\ \E es \in Orderings(dir_entries) :
                list_dir' = [stage |-> "ready", ok |-> TRUE, entries |-> es]
       \/ /\ ~dir_exists
          /\ list_dir' = [stage |-> "ready", ok |-> FALSE, entries |-> <<>>]
    /\ UNCHANGED <<dir_entries, dir_exists, dir_ops, created_at,
                   watch_installed, watcher_rx, dir_emitted, dw_state>>
    /\ DirOnly

DirUpdated(name, is_dir, via) ==
    [type |-> "Updated", name |-> name, is_dir |-> is_dir, via |-> via]
DirRemoved(name, is_dir, via) ==
    [type |-> "Removed", name |-> name, is_dir |-> is_dir, via |-> via]

\* ListDirectory::poll and DirectoryWatcher::poll_directory_listing: the new
\* list_dir and the outcome, "None", "Err" or "Some" with an event
PollDirectoryListing(ld) ==
    CASE ld.stage = "none" -> [list_dir |-> ld, out |-> "None"]
      [] ld.stage = "io" -> [list_dir |-> ld, out |-> "None"]
      [] ld.stage = "ready" /\ ~ld.ok -> [list_dir |-> NoListing, out |-> "Err"]
      [] OTHER ->
           IF ld.entries = <<>>
           THEN [list_dir |-> [stage |-> "done", entries |-> <<>>],
                 out |-> "None"]
           ELSE LET n == Len(ld.entries)
                    entry == ld.entries[n]
                IN  [list_dir |-> [stage |-> "done",
                                   entries |-> SubSeq(ld.entries, 1, n - 1)],
                     out |-> "Some",
                     event |-> DirUpdated(entry, IsDir(entry), "listing")]

HandleInotifyEventCreateFirst(event) ==
    IF event.mask \cap {"CREATE", "MODIFY", "MOVED_TO"} /= {}
    THEN [action |-> "Notify",
          event |-> [type |-> "Updated", name |-> event.name,
                     is_dir |-> "ISDIR" \in event.mask, via |-> "watcher"]]
    ELSE IF event.mask \cap {"DELETE_SELF", "MOVE_SELF", "IGNORED"} /= {}
    THEN [action |-> "Terminate"]
    ELSE IF event.mask \cap {"DELETE", "MOVED_FROM"} /= {}
    THEN [action |-> "Notify",
          event |-> [type |-> "Removed", name |-> event.name,
                     is_dir |-> "ISDIR" \in event.mask, via |-> "watcher"]]
    ELSE [action |-> "Continue"]

\* handle_inotify_event
HandleInotifyEvent(event) ==
    IF event.mask \cap {"DELETE_SELF", "MOVE_SELF", "IGNORED"} /= {}
    THEN [action |-> "Terminate"]
    ELSE IF event.mask \cap {"CREATE", "MODIFY", "MOVED_TO"} /= {}
    THEN [action |-> "Notify",
          event |-> DirUpdated(event.name, "ISDIR" \in event.mask, "watcher")]
    ELSE IF event.mask \cap {"DELETE", "MOVED_FROM"} /= {}
    THEN [action |-> "Notify",
          event |-> DirRemoved(event.name, "ISDIR" \in event.mask, "watcher")]
    ELSE [action |-> "Continue"]

\* poll_watcher: the new queue and list_dir, and the Action
PollWatcher(rx, ld) ==
    IF rx = <<>>
    THEN [watcher_rx |-> rx, list_dir |-> ld, action |-> "Wait"]
    ELSE LET ev == Head(rx)
         IN  CASE ev.type = "StartWatching" ->
                    [watcher_rx |-> Tail(rx), list_dir |-> ListDirectoryNew,
                     action |-> "Continue"]
               [] ev.type = "RestartWatching" ->
                    [watcher_rx |-> Tail(rx), list_dir |-> ld,
                     action |-> "Terminate"]
               [] OTHER ->
                    [watcher_rx |-> Tail(rx), list_dir |-> ld]
                        @@ HandleInotifyEvent(ev)

\* the loop of DirectoryWatcher::poll: the new queue and list_dir and the
\* result of the poll
RECURSIVE DirectoryWatcherPoll(_, _)
DirectoryWatcherPoll(rx, ld) ==
    LET l == PollDirectoryListing(ld)
    IN  IF l.out = "Err"
        THEN [watcher_rx |-> rx, list_dir |-> l.list_dir, result |-> "Err"]
        ELSE IF l.out = "Some"
        THEN [watcher_rx |-> rx, list_dir |-> l.list_dir, result |-> "Some",
              event |-> l.event]
        ELSE LET w == PollWatcher(rx, l.list_dir)
             IN  CASE w.action = "Continue" ->
                        DirectoryWatcherPoll(w.watcher_rx, w.list_dir)
                   [] w.action = "Wait" ->
                        [watcher_rx |-> w.watcher_rx, list_dir |-> w.list_dir,
                         result |-> "NotReady"]
                   [] w.action = "Terminate" ->
                        [watcher_rx |-> w.watcher_rx, list_dir |-> w.list_dir,
                         result |-> "None"]
                   [] OTHER ->
                        [watcher_rx |-> w.watcher_rx, list_dir |-> w.list_dir,
                         result |-> "Some", event |-> w.event]

\* the task of the watcher is polled: an event is queued for it, the listing
\* has finished, or it yielded an entry of the listing in its last poll
DirPoll ==
    /\ dw_state = "running"
    /\ \/ watcher_rx /= <<>>
       \/ list_dir.stage = "ready"
       \/ list_dir.stage = "done" /\ list_dir.entries /= <<>>
    /\ LET r == DirectoryWatcherPoll(watcher_rx, list_dir)
       IN  /\ watcher_rx' = r.watcher_rx
           /\ list_dir' = r.list_dir
           /\ dw_state' = CASE r.result = "Err" -> "failed"
                            [] r.result = "None" -> "terminated"
                            [] OTHER -> "running"
           /\ dir_emitted' = IF r.result = "Some"
                             THEN Append(dir_emitted, r.event)
                             ELSE dir_emitted
    /\ UNCHANGED <<dir_entries, dir_exists, dir_ops, created_at,
                   watch_installed>>
    /\ DirOnly

NextDir ==
    \/ ServiceAddWatch
    \/ ServiceRestartWatching
    \/ DirCreate
    \/ DirModify
    \/ DirDelete
    \/ DirDeleteSelf
    \/ ListExec
    \/ DirPoll

InitSpecDir == IdleTailer /\ IdleAgent /\ IdleTokenizer /\ IdleSubscriber
        /\ InitFs /\ InitDir /\ InitSvc

SpecDir == InitSpecDir /\ [][NextDir]_vars

(***************************************************************************)
(* handle_inotify_event on every event mask: a watcher that has finished   *)
(* its listing is polled with one notification in its queue.               *)
(***************************************************************************)
\* the flags an event mask is built from; ATTRIB stands for the flags that
\* handle_inotify_event does not test
EventFlags ==
    {"CREATE", "MODIFY", "MOVED_TO", "DELETE", "MOVED_FROM", "DELETE_SELF",
     "MOVE_SELF", "IGNORED", "ISDIR", "ATTRIB"}

InitMask ==
    /\ dir_entries = {}
    /\ dir_exists = TRUE
    /\ dir_ops = 0
    /\ created_at = [n \in Names |-> "start"]
    /\ watch_installed = TRUE
    /\ \E mask \in SUBSET EventFlags : \E name \in Names :
          watcher_rx = <<Notified(mask, name)>>
    /\ list_dir = [stage |-> "done", entries |-> <<>>]
    /\ dir_emitted = <<>>
    /\ dw_state = "running"

InitSpecMask == IdleTailer /\ IdleAgent /\ IdleTokenizer /\ IdleSubscriber
        /\ InitFs /\ InitMask /\ InitSvc

SpecMask == InitSpecMask /\ [][DirPoll]_vars

(***************************************************************************)
(* The notification service of inotify_service.rs, the WatchHandles of its *)
(* clients and the kernel's side of inotify.  The service thread handles   *)
(* the kernel events it finds before it takes a command (run_once).        *)
(***************************************************************************)
SvcOnly == UNCHANGED <<tailerVars, agentVars, tokVars, subVars, fsVars, dirVars>>

\* the directories clients ask to watch and the masks they ask for
SvcPaths == {"p", "q"}
MaskChoices == {{"CREATE"}, {"CREATE", "DELETE"}}

\* the flags add_watch names in its assertion
RejectedFlags == {"DONT_FOLLOW", "EXCL_UNLINK", "MASK_ADD", "ONESHOT", "ONLYDIR"}

AddWatch(h, path, mask) ==
    [type |-> "AddWatch", h |-> h, path |-> path, mask |-> mask]
RemoveWatch(wd) == [type |-> "RemoveWatch", wd |-> wd]

\* std_mpsc send: the command is lost when the service thread has ended
SendCommand(q, command) == IF svc_alive THEN Append(q, command) ELSE q

NoReply == [kind |-> "none"]

\* InotifyServiceHandle::watch
Watch ==
    /\ Len(handles) < MaxHandles
    /\ \E path \in SvcPaths : \E mask \in MaskChoices :
          /\ handles' = Append(handles,
                 [path |-> path, mask |-> mask, state |-> "Adding",
                  reply |-> NoReply, event_rx |-> <<>>, rx_alive |-> TRUE])
          /\ command_rx' = SendCommand(command_rx,
                                       AddWatch(Len(handles) + 1, path, mask))
    /\ UNCHANGED <<svc_alive, watches, raw_wd_map, next_wd, kernel_watches,
                   kernel_next_raw, gone_paths, raw_events, raw_events_sent>>
    /\ SvcOnly

\* the raw descriptors the kernel holds for path (none or one)
KernelRawOf(path) ==
    {raw \in DOMAIN kernel_watches : kernel_watches[raw].path = path}

MapPut(m, k, v) == [x \in DOMAIN m \cup {k} |-> IF x = k THEN v ELSE m[x]]
MapRemove(m, k) == [x \in DOMAIN m \ {k} |-> m[x]]

\* the assertion of add_watch holds for mask
MaskAccepted(mask) == ~(RejectedFlags \subseteq mask)

\* add_watch: the new tables and kernel state and the reply
AddWatchResult(path, mask, h) ==
    LET same == [watches |-> watches, raw_wd_map |-> raw_wd_map,
                 next_wd |-> next_wd, kernel_watches |-> kernel_watches,
                 kernel_next_raw |-> kernel_next_raw]
    IN  IF ~MaskAccepted(mask)
        THEN same @@ [reply |-> [kind |-> "InvalidInput"]]
        ELSE IF path \in gone_paths
        THEN \* Inotify::add_watch fails
             same @@ [reply |-> [kind |-> "Other"]]
        ELSE LET known == KernelRawOf(path)
                 raw_wd == IF known = {} THEN kernel_next_raw
                           ELSE CHOOSE raw \in known : TRUE
                 kmask == IF known = {} THEN mask \ {"MASK_ADD"}
                          ELSE kernel_watches[raw_wd].mask \cup
                                  (mask \ {"MASK_ADD"})
                 wd == next_wd
                 wds == IF raw_wd \in DOMAIN raw_wd_map
                        THEN raw_wd_map[raw_wd] ELSE <<>>
             IN  [watches |-> MapPut(watches, wd,
                        [raw_wd |-> raw_wd, mask |-> mask, h |-> h]),
                  raw_wd_map |-> MapPut(raw_wd_map, raw_wd, Append(wds, wd)),
                  next_wd |-> next_wd + 1,
                  kernel_watches |-> MapPut(kernel_watches, raw_wd,
                        [path |-> path, mask |-> kmask]),
                  kernel_next_raw |-> IF known = {} THEN kernel_next_raw + 1
                                      ELSE kernel_next_raw,
                  reply |-> [kind |-> "Ok", wd |-> wd]]

\* Vec::swap_remove of the first element equal to wd
SwapRemoveLast(wds, wd) ==
    IF wds = <<>> THEN wds ELSE SubSeq(wds, 1, Len(wds) - 1)
SwapRemove(wds, wd) ==
    IF \A i \in 1..Len(wds) : wds[i] /= wd
    THEN wds
    ELSE LET i == CHOOSE k \in 1..Len(wds) :
                      wds[k] = wd /\ \A j \in 1..(k - 1) : wds[j] /= wd
         IN  [j \in 1..(Len(wds) - 1) |->
                 IF j = i THEN wds[Len(wds)] ELSE wds[j]]

\* remove_watch releases the kernel watch: the Vec of the raw descriptor
\* has become empty
ReleasesKernelWatchAlways(wds) == TRUE
ReleasesKernelWatch(wds) == wds = <<>>

\* remove_watch: the new tables and kernel state, and whether it returned Ok
RemoveWatchResult(wd) ==
    IF wd \notin DOMAIN watches
    THEN [watches |-> watches, raw_wd_map |-> raw_wd_map,
          kernel_watches |-> kernel_watches, ok |-> TRUE]
    ELSE LET raw_wd == watches[wd].raw_wd
             wds == SwapRemove(raw_wd_map[raw_wd], wd)
         IN  [watches |-> MapRemove(watches, wd),
              raw_wd_map |-> MapPut(raw_wd_map, raw_wd, wds),
              kernel_watches |-> IF ReleasesKernelWatch(wds)
                                 THEN MapRemove(kernel_watches, raw_wd)
                                 ELSE kernel_watches,
              ok |-> ~ReleasesKernelWatch(wds)
                       \/ raw_wd \in DOMAIN kernel_watches]

\* run_once without a kernel event to read: one command is taken and
\* handled (handle_command); an error of remove_watch ends the thread
SvcHandleCommand ==
    /\ svc_alive
    /\ raw_events = <<>>
    /\ command_rx /= <<>>
    /\ LET command == Head(command_rx)
       IN  IF command.type = "AddWatch"
           THEN LET r == AddWatchResult(command.path, command.mask, command.h)
                IN  /\ watches' = r.watches
                    /\ raw_wd_map' = r.raw_wd_map
                    /\ next_wd' = r.next_wd
                    /\ kernel_watches' = r.kernel_watches
                    /\ kernel_next_raw' = r.kernel_next_raw
                    /\ handles' = [handles EXCEPT ![command.h].reply = r.reply]
                    /\ svc_alive' = TRUE
                    /\ command_rx' = Tail(command_rx)
           ELSE LET r == RemoveWatchResult(command.wd)
                IN  /\ watches' = r.watches
                    /\ raw_wd_map' = r.raw_wd_map
                    /\ kernel_watches' = r.kernel_watches
                    /\ svc_alive' = r.ok
                    /\ command_rx' = Tail(command_rx)
                    /\ UNCHANGED <<next_wd, kernel_next_raw, handles>>
    /\ UNCHANGED <<gone_paths, raw_events, raw_events_sent>>
    /\ SvcOnly

\* Watch::notify: the mask of the forwarded event
ReducedMaskKept(event_mask, watch_mask) == event_mask
ReducedMask(event_mask, watch_mask) == event_mask \cap watch_mask

\* the Vec of subscriptions handle_event finds for a raw descriptor
SubscriptionsOf(raw_wd) ==
    IF raw_wd \in DOMAIN raw_wd_map THEN raw_wd_map[raw_wd] ELSE <<>>

\* run_once with kernel events to read: handle_event on the next of them
SvcHandleEvent ==
    /\ svc_alive
    /\ raw_events /= <<>>
    /\ LET event == Head(raw_events)
           wds == SubscriptionsOf(event.wd)
           \* the positions of wds whose Watch sends to handle h
           notified(h) ==
               {i \in 1..Len(wds) :
                   /\ watches[wds[i]].h = h
                   /\ ReducedMask(event.mask, watches[wds[i]].mask) /= {}}
       IN  handles' =
             [h \in 1..Len(handles) |->
                 IF notified(h) /= {} /\ handles[h].rx_alive
                 THEN LET watch == watches[wds[CHOOSE i \in notified(h) : TRUE]]
                      IN  [handles[h] EXCEPT !.event_rx =
                             Append(@, [mask |-> ReducedMask(event.mask,
                                                             watch.mask),
                                        name |-> event.name])]
                 ELSE handles[h]]
    /\ raw_events' = Tail(raw_events)
    /\ UNCHANGED <<svc_alive, command_rx, watches, raw_wd_map, next_wd,
                   kernel_watches, kernel_next_raw, gone_paths,
                   raw_events_sent>>
    /\ SvcOnly

\* the kernel reports a change below a watched directory
KernelEvent ==
    /\ raw_events_sent < MaxRawEvents
    /\ \E raw \in DOMAIN kernel_watches :
       \E flag \in kernel_watches[raw].mask :
       \E isdir \in {{}, {"ISDIR"}} :
          raw_events' = Append(raw_events,
              [wd |-> raw, mask |-> {flag} \cup isdir, name |-> "n"])
    /\ raw_events_sent' = raw_events_sent + 1
    /\ UNCHANGED <<svc_alive, command_rx, watches, raw_wd_map, next_wd,
                   handles, kernel_watches, kernel_next_raw, gone_paths>>
    /\ SvcOnly

\* a watched directory is deleted: the kernel drops its watch and reports
\* IGNORED
KernelInvalidate ==
    /\ raw_events_sent < MaxRawEvents
    /\ \E raw \in DOMAIN kernel_watches :
          /\ kernel_watches' = MapRemove(kernel_watches, raw)
          /\ gone_paths' = gone_paths \cup {kernel_watches[raw].path}
          /\ raw_events' = Append(raw_events,
                [wd |-> raw, mask |-> {"IGNORED"}, name |-> "none"])
    /\ raw_events_sent' = raw_events_sent + 1
    /\ UNCHANGED <<svc_alive, command_rx, watches, raw_wd_map, next_wd,
                   handles, kernel_next_raw>>
    /\ SvcOnly

\* the future of WatchHandleState::Adding is Ready(wd): the service replied
\* with a descriptor
AddingResolvedByAnyReply(w) == w.reply.kind /= "none"
AddingResolved(w) == w.reply.kind = "Ok"

\* WatchHandle::poll: the reply of the add request is taken, then one event
HandlePoll(h) ==
    /\ h \in 1..Len(handles)
    /\ LET w == handles[h]
       IN  /\ w.state \in {"Adding", "Watching"}
           /\ IF w.state = "Adding" /\ w.reply.kind = "none"
              THEN \* NotReady, or the monitor reports the end of the thread
                   /\ ~svc_alive
                   /\ handles' = [handles EXCEPT ![h].state = "Failed"]
              ELSE IF w.state = "Adding" /\ ~AddingResolved(w)
              THEN \* the reply is an error: poll returns it
                   handles' = [handles EXCEPT ![h].state = "Failed"]
              ELSE /\ w.state = "Adding" \/ w.event_rx /= <<>>
                   /\ handles' = [handles EXCEPT
                         ![h].state = "Watching",
                         ![h].event_rx = IF @ = <<>> THEN @ ELSE Tail(@)]
    /\ UNCHANGED <<svc_alive, command_rx, watches, raw_wd_map, next_wd,
                   kernel_watches, kernel_next_raw, gone_paths, raw_events,
                   raw_events_sent>>
    /\ SvcOnly

\* Drop for WatchHandle
SendsRemoveWatch(w) == w.state = "Watching"

HandleDrop(h) ==
    /\ h \in 1..Len(handles)
    /\ handles[h].state /= "Dropped"
    /\ command_rx' = IF SendsRemoveWatch(handles[h])
                     THEN SendCommand(command_rx,
                                      RemoveWatch(handles[h].reply.wd))
                     ELSE command_rx
    /\ handles' = [handles EXCEPT ![h].state = "Dropped",
                                  ![h].rx_alive = FALSE,
                                  ![h].event_rx = <<>>]
    /\ UNCHANGED <<svc_alive, watches, raw_wd_map, next_wd, kernel_watches,
                   kernel_next_raw, gone_paths, raw_events, raw_events_sent>>
    /\ SvcOnly

NextSvc ==
    \/ Watch
    \/ SvcHandleCommand
    \/ SvcHandleEvent
    \/ KernelEvent
    \/ KernelInvalidate
    \/ \E h \in 1..MaxHandles : HandlePoll(h)
    \/ \E h \in 1..MaxHandles : HandleDrop(h)

InitSpecSvc == IdleTailer /\ IdleAgent /\ IdleTokenizer /\ IdleSubscriber
        /\ InitFs /\ IdleDir /\ InitSvc

SpecSvc == InitSpecSvc /\ [][NextSvc]_vars

(***************************************************************************)
(* add_watch on every watch mask: the service holds one AddWatch command.  *)
(***************************************************************************)
WatchFlags == {"CREATE", "DELETE", "MODIFY"} \cup RejectedFlags

InitAddWatch ==
    /\ svc_alive = TRUE
    /\ \E path \in SvcPaths : \E mask \in SUBSET WatchFlags :
          /\ command_rx = <<AddWatch(1, path, mask)>>
          /\ handles = <<[path |-> path, mask |-> mask, state |-> "Adding",
                          reply |-> NoReply, event_rx |-> <<>>,
                          rx_alive |-> TRUE]>>
    /\ watches = EmptyMap
    /\ raw_wd_map = EmptyMap
    /\ next_wd = 0
    /\ kernel_watches = EmptyMap
    /\ kernel_next_raw = 1
    /\ gone_paths = {}
    /\ raw_events = <<>>
    /\ raw_events_sent = 0

InitSpecAddWatch == IdleTailer /\ IdleAgent /\ IdleTokenizer /\ IdleSubscriber
        /\ InitFs /\ IdleDir /\ InitAddWatch

SpecAddWatch == InitSpecAddWatch /\ [][SvcHandleCommand]_vars

\* the service thread and the tasks that own the handles keep running
FairSpecSvc ==
    /\ SpecSvc
    /\ WF_vars(SvcHandleCommand)
    /\ WF_vars(SvcHandleEvent)

(***************************************************************************)
(* The service while the files below a watched directory keep changing:    *)
(* the kernel has a new event whenever read_events has taken the last one. *)
(***************************************************************************)
\* the clients take their events as they arrive: at most this many wait in
\* the channel of a handle when the kernel reports again
MaxWaitingEvents == 1

KernelEventAgain ==
    /\ raw_events = <<>>
    /\ \A h \in 1..Len(handles) : Len(handles[h].event_rx) < MaxWaitingEvents
    /\ \E raw \in DOMAIN kernel_watches :
       \E flag \in kernel_watches[raw].mask :
          raw_events' = <<[wd |-> raw, mask |-> {flag}, name |-> "n"]>>
    /\ UNCHANGED <<svc_alive, command_rx, watches, raw_wd_map, next_wd,
                   handles, kernel_watches, kernel_next_raw, gone_paths,
                   raw_events_sent>>
    /\ SvcOnly

NextSvcBusy ==
    \/ NextSvc
    \/ KernelEventAgain

SpecSvcBusy == InitSpecSvc /\ [][NextSvcBusy]_vars

\* the service thread runs its loop for ever: an iteration that finds kernel
\* events handles them, an iteration that finds none takes a command
FairSpecSvcBusy ==
    /\ SpecSvcBusy
    /\ WF_vars(SvcHandleCommand)
    /\ WF_vars(SvcHandleEvent)

(***************************************************************************)
(* Properties of the tailer.                                               *)
(***************************************************************************)
IsCont(b) == b \in 128..191
LeadLen(b) == IF b \in 192..223 THEN 2
              ELSE IF b \in 224..239 THEN 3
              ELSE IF b \in 240..247 THEN 4
              ELSE 1

\* the number of continuation bytes at the end of d (at most 3 are looked at)
RECURSIVE TrailingCont(_, _)
TrailingCont(d, k) ==
    IF k < 3 /\ k < Len(d) /\ IsCont(d[Len(d) - k])
    THEN TrailingCont(d, k + 1) ELSE k

\* d ends inside a multi-byte sequence: its last lead byte announces more
\* bytes than follow it
EndsInsideSequence(d) ==
    LET k == TrailingCont(d, 0)
    IN  /\ Len(d) > k
        /\ LeadLen(d[Len(d) - k]) > k + 1

\* C1: the first chunk starts at offset 0 and every chunk starts where the
\* previous one ended: offset(n+1) = offset(n) + len(data(n)).
C1_ChunksContiguous ==
    /\ chunks /= <<>> => chunks[1].offset = 0
    /\ \A i \in 1..(Len(chunks) - 1) :
          chunks[i + 1].offset = chunks[i].offset + Len(chunks[i].data)

\* two chunks were yielded, the first by a read that filled the buffer
C1_Witness ==
    /\ Len(chunks) >= 2
    /\ ~chunks[1].eof
    /\ chunks[2].offset = READ_BUFFER_SIZE

\* C2: the tailer covers every byte written: when every FileUpdated was sent
\* and received, no read is scheduled or running and the stream is not ready,
\* the tailer has read up to the end of the file.
C2_QuiescentCovered ==
    ( /\ tailer_state = "running"
      /\ tx_alive
      /\ signal_pending = 0
      /\ event_rx = <<>>
      /\ read_file_content.stage = "none"
      /\ poll_result /= "Some" )
    => current_position = Len(file)

\* C3: no yielded chunk ends inside a multi-byte UTF-8 sequence.
C3_ChunksEndOnBoundary ==
    \A i \in 1..Len(chunks) : ~EndsInsideSequence(chunks[i].data)

\* C9: the stream ends only when the channel is closed and drained, it ends
\* once that is so, and no chunk is yielded after the end.
C9_EndsOnClosedChannel ==
    /\ [](tailer_state = "ended" => (~tx_alive /\ event_rx = <<>>))
    /\ [][tailer_state /= "running" => chunks' = chunks]_vars
    /\ [][(tailer_state = "running" /\ tailer_state' = "failed")
           => (read_file_content.stage = "ready" /\ ~read_file_content.ok)]_vars
    /\ ((tailer_state = "running" /\ ~tx_alive /\ event_rx = <<>>)
           ~> (tailer_state = "ended"))

\* the stream ended after it yielded a chunk and received a queued signal
\* behind which the channel was closed
C9_Witness ==
    /\ tailer_state = "ended"
    /\ chunks /= <<>>
    /\ is_updated

\* C35: no update signal is lost in the tailer: when poll has returned
\* not-ready, is_updated is not set while no read is scheduled or in flight.
C35_NoLostUpdateSignal ==
    (tailer_state = "running" /\ poll_result = "NotReady")
        => ~(is_updated /\ read_file_content.stage = "none")

\* C22: signal coalescing: a read is scheduled only when no read is scheduled
\* or in flight, and the FileUpdated signals sent between the completion of
\* one read and the scheduling of the next cause that read and no other: a
\* read triggered by a signal is scheduled only if a signal was sent that no
\* read was scheduled for yet.
C22_SignalCoalescing ==
    [][(/\ read_file_content' # read_file_content
        /\ read_file_content'.stage = "wait")
       => /\ read_file_content.stage \in {"none", "ready"}
          /\ (read_file_content'.wait = MIN_READ_CONTENT_INTERVAL
                  => sent_while # {})]_vars

\* C23: minimum interval between reads: a read scheduled on a FileUpdated
\* signal (scheduled while no read was pending) waits
\* MIN_READ_CONTENT_INTERVAL, and the I/O of such a read starts no earlier
\* than that interval after the previous read completed; a read is scheduled
\* with zero delay only as the follow-up of a chunk that was not eof (the
\* initial read of the constructor has zero delay too).
C23_MinimumInterval ==
    [][/\ (/\ read_file_content.stage = "none"
           /\ read_file_content'.stage = "wait")
          => read_file_content'.wait = MIN_READ_CONTENT_INTERVAL
       /\ (/\ read_file_content' # read_file_content
           /\ read_file_content'.stage = "wait"
           /\ read_file_content'.wait = 0)
          => /\ read_file_content.stage = "ready"
             /\ read_file_content.ok
             /\ ~read_file_content.content.eof
       /\ (/\ read_file_content'.stage = "io"
           /\ read_file_content.stage # "io"
           /\ read_file_content.wait = MIN_READ_CONTENT_INTERVAL)
          => elapsed >= MIN_READ_CONTENT_INTERVAL]_vars

\* the I/O of a read scheduled on a signal has started after a read had
\* completed at end of file, and a follow-up read was scheduled before
C23_Witness ==
    /\ read_file_content.stage = "io"
    /\ read_file_content.wait = MIN_READ_CONTENT_INTERVAL
    /\ Len(chunks) = 2
    /\ ~chunks[1].eof
    /\ chunks[2].eof

Contains(w, sub) ==
    \E k \in 1..(Len(w) - Len(sub) + 1) :
        SubSeq(w, k, k + Len(sub) - 1) = sub

\* the character U+00E9 is in the file, lead byte and continuation byte
FileHasTwoByteChar == Contains(file, <<195, 169>>)

\* C20: no chunk ends inside a multi-byte character and none starts inside
\* one, so every character is whole in one chunk; the file, which is text,
\* is not marked binary; and once all of the file was read and processed, a
\* multi-byte character of it is part of a word of the filter
C20_MultibyteSplit ==
    /\ \A i \in 1..Len(chunks) :
          /\ ~EndsInsideSequence(chunks[i].data)
          /\ ~IsCont(chunks[i].data[1])
    /\ ~is_binary
    /\ (/\ Len(processed) = Len(chunks)
        /\ current_position = Len(file)
        /\ FileHasTwoByteChar)
          => \E w \in cuckoo_filter : Contains(w, <<195, 169>>)

(***************************************************************************)
(* Properties of the file-system watcher, its tailers and the agent.       *)
(***************************************************************************)
\* the tailers emitted for path p that have not terminated
LiveTailers(p) ==
    {t \in 1..Len(tailers) : tailers[t].path = p /\ tailers[t].state = "running"}

\* the FileState created together with tailer t is in Agent.files
FileStatePresent(t) ==
    \E p \in FilePaths : files[p].present /\ files[p].id = t

\* this step is HandleDirEvent taking Updated { is_dir: false }
HandlesFileUpdated ==
    /\ dir_event_rx /= <<>>
    /\ dir_event_rx' = Tail(dir_event_rx)
    /\ Head(dir_event_rx).type = "Updated"
    /\ ~Head(dir_event_rx).is_dir

\* C6: for every path in watching_files exactly one emitted tailer of that
\* path has not terminated
C6_ExactlyOneTailer ==
    \A p \in FilePaths :
        watching_files[p] /= 0 => Cardinality(LiveTailers(p)) = 1

\* this step is the agent taking a FileEvent of the given type
TakesFileEvent(type) ==
    /\ file_event_rx /= <<>>
    /\ file_event_rx' = Tail(file_event_rx)
    /\ Head(file_event_rx).type = type

\* C33: the agent holds a FileState for the path of every tailer that was
\* emitted and has not terminated, under any interleaving of directory
\* events and tailer terminations; so a chunk of a live tailer is never
\* discarded because the FileState of its path is missing.
C33_LiveTailerHasFileState ==
    /\ [](\A t \in 1..Len(tailers) :
             tailers[t].state = "running" => files[tailers[t].path].present)
    /\ [][(/\ TakesFileEvent("Updated")
            /\ tailers[Head(file_event_rx).from].state = "running")
           => files[Head(file_event_rx).path].present
         ]_vars

\* C34: the chunks applied to one FileState all come from the tailer the
\* FileState was created with and are contiguous from offset 0: no chunk of
\* the previous tailer of the path is applied to a fresh FileState.
C34_SingleTailerPerFileState ==
    \A n \in 1..Len(filter_log) :
        \A i \in 1..Len(filter_log[n]) :
            filter_log[n][i] = <<n, i - 1>>

\* C7: handling Updated(path, is_dir = false) emits a new tailer only when
\* the path has no mapping or its mapped tailer was dropped; for a path mapped
\* to a live tailer the event becomes one FileUpdated on the existing channel,
\* no tailer is emitted and the mapping stays as it is; afterwards the path is
\* mapped to exactly one channel, whose sender is alive
C7_Deduplication ==
    [][HandlesFileUpdated =>
        LET path == Head(dir_event_rx).path
            t == watching_files[path]
        IN  /\ IF t /= 0 /\ tailers[t].state = "running"
               THEN /\ Len(tailers') = Len(tailers)
                    /\ watching_files' = watching_files
                    /\ tailers'[t].rx = tailers[t].rx + 1
                    /\ files' = files
               ELSE /\ Len(tailers') = Len(tailers) + 1
                    /\ watching_files'[path] = Len(tailers')
                    /\ tailers'[Len(tailers')].path = path
                    /\ tailers'[Len(tailers')].state = "running"
                    /\ t /= 0 => ~tailers'[t].tx_alive
            /\ watching_files'[path] /= 0
            /\ tailers'[watching_files'[path]].tx_alive
            /\ \A u \in 1..Len(tailers') :
                  (tailers'[u].path = path /\ tailers'[u].tx_alive)
                      => u = watching_files'[path]
      ]_vars

\* an Updated for a path mapped to a live tailer was delivered as a signal
C7_Witness ==
    /\ fs_last = "signal"
    /\ Len(tailers) = 1
    /\ watching_files["root/d.txt"] = 1
    /\ tailers[1].state = "running"
    /\ tailers[1].rx > 0

\* C8: once the sender of a tailer's channel was dropped (Removed handled)
\* the tailer terminates; once it terminated the FileState created for it
\* leaves Agent.files; a FileState that is not in Agent.files gets no insert
C8_RemoveDuringTail ==
    /\ \A t \in 1..MaxTailers :
          (t <= Len(tailers) /\ ~tailers[t].tx_alive)
              ~> (t <= Len(tailers) /\ tailers[t].state /= "running")
    /\ \A t \in 1..MaxTailers :
          (t <= Len(tailers) /\ tailers[t].state /= "running")
              ~> ~FileStatePresent(t)
    /\ [][\A t \in 1..Len(filter_log) :
             ~FileStatePresent(t) => filter_log'[t] = filter_log[t]]_vars

\* a tailed file whose chunk was applied was removed: its tailer ended and
\* its FileState is gone
C8_Witness ==
    /\ Len(tailers) = 1
    /\ fs_last = "removed"
    /\ tailers[1].state = "ended"
    /\ filter_log[1] /= <<>>
    /\ ~FileStatePresent(1)
    /\ file_event_rx = <<>>

\* the tailers emitted so far for the path
TailersOf(path) == {t \in 1..Len(tailers) : tailers[t].path = path}

Beneath(path, dir) == Parent(path) = dir \/ dir = Root

\* C28: whenever the directory watcher spawned by watch(dir) terminates,
\* exactly one Removed(dir, is_dir = true) is sent into the directory-event
\* channel, behind every event that watcher forwarded.
C28_SyntheticRemoved ==
    [][\A d \in terminated_dirs' \ terminated_dirs :
          dir_event_rx' =
              Append(dir_event_rx,
                     [type |-> "Removed", path |-> d, is_dir |-> TRUE])]_vars

\* C29: pruning on directory termination: once the watcher of a directory has
\* terminated and every queued directory event was handled, no file path
\* beneath that directory is in watching_files.
C29_PruningOnTermination ==
    \A d \in terminated_dirs :
        dir_event_rx = <<>> =>
            \A path \in FilePaths :
                Beneath(path, d) => watching_files[path] = 0

(***************************************************************************)
(* Properties of the directory watcher.                                    *)
(***************************************************************************)
\* the positions of dir_emitted that are about the entry name
EventsAbout(name) ==
    {i \in 1..Len(dir_emitted) : dir_emitted[i].name = name}

\* the last event the watcher yielded about name is an Updated
ReportedPresent(name) ==
    /\ EventsAbout(name) /= {}
    /\ LET last == CHOOSE i \in EventsAbout(name) :
                       \A j \in EventsAbout(name) : j <= i
       IN  dir_emitted[last].type = "Updated"

\* the watcher runs and has nothing left to do: no queued event, the listing
\* read and all its entries yielded
DirQuiescent ==
    /\ dw_state = "running"
    /\ watch_installed
    /\ watcher_rx = <<>>
    /\ list_dir.stage = "done"
    /\ list_dir.entries = <<>>

InQueue(rx, ev) == \E i \in 1..Len(rx) : rx[i] = ev

ReportingFlags ==
    {"DELETE_SELF", "MOVE_SELF", "IGNORED", "CREATE", "MODIFY", "MOVED_TO",
     "DELETE", "MOVED_FROM"}

\* the queued event ev is passed over without an event being yielded
PassedOver(ev) ==
    \/ ev.type = "StartWatching"
    \/ ev.type = "Notified" /\ ev.mask \cap ReportingFlags = {}

\* C11: every Updated that comes from the initial listing is yielded before
\* any event that comes from a kernel notification, and the events that come
\* from notifications are yielded in the order the kernel queued them
C11_ListingBeforeLiveEvents ==
    /\ [](\A i \in 1..Len(dir_emitted) : \A j \in 1..Len(dir_emitted) :
             (i < j /\ dir_emitted[i].via = "watcher")
                 => dir_emitted[j].via = "watcher")
    /\ [][(Len(dir_emitted') = Len(dir_emitted) + 1
             /\ dir_emitted'[Len(dir_emitted')].via = "watcher")
            => \E k \in 1..Len(watcher_rx) :
                  /\ watcher_rx' = SubSeq(watcher_rx, k + 1, Len(watcher_rx))
                  /\ watcher_rx[k].type = "Notified"
                  /\ watcher_rx[k].name = dir_emitted'[Len(dir_emitted')].name
                  /\ \A j \in 1..(k - 1) : PassedOver(watcher_rx[j])]_vars

\* C12: a notification whose mask has DELETE_SELF, MOVE_SELF or IGNORED ends
\* the stream; otherwise one with CREATE, MODIFY or MOVED_TO yields Updated
\* for its name; otherwise one with DELETE or MOVED_FROM yields Removed for
\* its name; otherwise nothing is yielded and the watcher keeps running;
\* is_dir of the yielded event is TRUE exactly when the mask has ISDIR
C12_MaskMapping ==
    [][(dw_state = "running" /\ Len(watcher_rx) = 1
          /\ watcher_rx[1].type = "Notified" /\ watcher_rx' = <<>>
          /\ list_dir = [stage |-> "done", entries |-> <<>>])
        => LET mask == watcher_rx[1].mask
               name == watcher_rx[1].name
               yielded(type) ==
                   /\ dw_state' = "running"
                   /\ Len(dir_emitted') = Len(dir_emitted) + 1
                   /\ SubSeq(dir_emitted', 1, Len(dir_emitted)) = dir_emitted
                   /\ dir_emitted'[Len(dir_emitted')].type = type
                   /\ dir_emitted'[Len(dir_emitted')].name = name
                   /\ dir_emitted'[Len(dir_emitted')].is_dir
                         = ("ISDIR" \in mask)
           IN  IF \E f \in {"DELETE_SELF", "MOVE_SELF", "IGNORED"} : f \in mask
               THEN dw_state' = "terminated" /\ dir_emitted' = dir_emitted
               ELSE IF \E f \in {"CREATE", "MODIFY", "MOVED_TO"} : f \in mask
               THEN yielded("Updated")
               ELSE IF \E f \in {"DELETE", "MOVED_FROM"} : f \in mask
               THEN yielded("Removed")
               ELSE dw_state' = "running" /\ dir_emitted' = dir_emitted
      ]_vars

\* a notification about the directory "sub" was mapped to Removed
C12_Witness ==
    /\ dir_ops = 0
    /\ dw_state = "running"
    /\ watcher_rx = <<>>
    /\ dir_emitted = <<DirRemoved("sub", TRUE, "watcher")>>

(***************************************************************************)
(* Properties of the notification service.                                 *)
(***************************************************************************)
\* this step is the service taking the command at the head of command_rx
TakesCommand(type) ==
    /\ command_rx /= <<>>
    /\ command_rx' = Tail(command_rx)
    /\ Head(command_rx).type = type

\* the subscriptions of the table watches that are on the raw descriptor
SubscribedOn(raw_wd) ==
    {wd \in DOMAIN watches : watches[wd].raw_wd = raw_wd}

\* the subscriptions that belong to handle h
SubscriptionsOfHandle(h) == {wd \in DOMAIN watches : watches[wd].h = h}

\* C13: an AddWatch whose mask has any of DONT_FOLLOW, EXCL_UNLINK, MASK_ADD,
\* ONESHOT, ONLYDIR is answered with InvalidInput and changes neither the
\* service's tables nor the kernel's watches
C13_RejectedMaskBits ==
    [][(TakesCommand("AddWatch")
          /\ Head(command_rx).mask \cap RejectedFlags /= {})
        => /\ handles'[Head(command_rx).h].reply.kind = "InvalidInput"
           /\ watches' = watches
           /\ raw_wd_map' = raw_wd_map
           /\ next_wd' = next_wd
           /\ kernel_watches' = kernel_watches
      ]_vars

\* this step is the service handling the kernel event at the head of
\* raw_events
TakesEvent ==
    /\ raw_events /= <<>>
    /\ raw_events' = Tail(raw_events)

\* C14: when the service handles a kernel event, every handle subscribed on
\* the event's raw descriptor whose requested mask meets the event's mask gets
\* the event once, with the mask cut down to the requested flags; every other
\* handle gets nothing; no queued event has a flag its handle did not request
C14_FanOut ==
    /\ [][TakesEvent =>
           LET event == Head(raw_events)
           IN  \A h \in 1..Len(handles) :
                  IF /\ \E wd \in SubscribedOn(event.wd) : watches[wd].h = h
                     /\ event.mask \cap handles[h].mask /= {}
                     /\ handles[h].rx_alive
                  THEN handles'[h].event_rx =
                          Append(handles[h].event_rx,
                                 [mask |-> event.mask \cap handles[h].mask,
                                  name |-> event.name])
                  ELSE handles'[h].event_rx = handles[h].event_rx
         ]_vars
    /\ [](\A h \in 1..Len(handles) :
             \A i \in 1..Len(handles[h].event_rx) :
                /\ handles[h].event_rx[i].mask /= {}
                /\ handles[h].event_rx[i].mask \subseteq handles[h].mask)

\* two handles watch the same directory; a DELETE event reached only the
\* handle that asked for DELETE
C14_Witness ==
    /\ Len(handles) = 2
    /\ handles[1].path = handles[2].path
    /\ handles[1].mask = {"CREATE"}
    /\ handles[2].mask = {"CREATE", "DELETE"}
    /\ handles[1].state = "Watching"
    /\ handles[1].event_rx = <<>>
    /\ handles[2].event_rx = <<[mask |-> {"DELETE"}, name |-> "n"]>>
    /\ raw_events = <<>>
    /\ raw_events_sent = 1

\* C15: the service releases the kernel watch of a raw descriptor only in the
\* step that removes the last subscription on it, and that step releases it
C15_LastSubscriber ==
    /\ [][(command_rx /= <<>> /\ command_rx' = Tail(command_rx))
           => \A raw \in DOMAIN kernel_watches :
                 raw \notin DOMAIN kernel_watches'
                    => /\ Head(command_rx).type = "RemoveWatch"
                       /\ SubscribedOn(raw) = {Head(command_rx).wd}
         ]_vars
    /\ [][TakesCommand("RemoveWatch")
           => \A raw \in DOMAIN kernel_watches :
                 SubscribedOn(raw) = {Head(command_rx).wd}
                    => raw \notin DOMAIN kernel_watches'
         ]_vars

\* of two subscriptions on one raw descriptor the first was removed: the
\* kernel watch is still there for the second
C15_Witness ==
    /\ Len(handles) = 2
    /\ handles[1].state = "Dropped"
    /\ handles[1].reply.kind = "Ok"
    /\ handles[2].state = "Watching"
    /\ command_rx = <<>>
    /\ DOMAIN watches = {handles[2].reply.wd}
    /\ watches[handles[2].reply.wd].raw_wd \in DOMAIN kernel_watches
    /\ next_wd = 2
    /\ kernel_next_raw = 2

\* C16: once the service has handled every command, a dropped handle has no
\* subscription left, and when every handle was dropped no subscription and
\* no kernel watch is left
C16_DropRemovesWatch ==
    (svc_alive /\ command_rx = <<>>)
        => /\ \A h \in 1..Len(handles) :
                 handles[h].state = "Dropped" => SubscriptionsOfHandle(h) = {}
           /\ (\A h \in 1..Len(handles) : handles[h].state = "Dropped")
                 => (watches = EmptyMap /\ kernel_watches = EmptyMap)

\* C17: the service loop keeps running when it handles a RemoveWatch,
\* whether or not the kernel watch could be released
C17_RemovalFailureSilent ==
    [][(svc_alive /\ TakesCommand("RemoveWatch")) => svc_alive']_vars

\* C18: when the service forwards an event to a subscription whose receiver
\* is gone, it removes that subscription from its tables, and the other
\* subscriptions of the raw descriptor get the event
C18_SilentUnsubscribe ==
    [][TakesEvent =>
         LET event == Head(raw_events)
         IN  \A wd \in SubscribedOn(event.wd) :
                IF event.mask \cap watches[wd].mask = {}
                THEN TRUE
                ELSE IF handles[watches[wd].h].rx_alive
                THEN Len(handles'[watches[wd].h].event_rx)
                        = Len(handles[watches[wd].h].event_rx) + 1
                ELSE wd \notin DOMAIN watches'
      ]_vars

\* this step takes an event from the queue of handle h and yields it
YieldsEvent(h) ==
    /\ h <= Len(handles)
    /\ handles[h].event_rx /= <<>>
    /\ handles'[h].event_rx = Tail(handles[h].event_rx)
    /\ handles'[h].state /= "Dropped"

\* C30: the state machine of a subscription: it starts in Adding; an event
\* is yielded only by a poll that leaves it in Watching; it moves from Adding
\* to Watching only when the service has replied with a descriptor; when the
\* add failed, the poll that observes the reply returns the error (Failed),
\* and such a subscription holds and yields no event; it never moves back
\* from Watching to Adding.
C30_SubscriptionStateMachine ==
    /\ [][/\ Len(handles') > Len(handles)
             => handles'[Len(handles')].state = "Adding"
          /\ \A h \in 1..Len(handles) :
                LET w == handles[h]
                    w2 == handles'[h]
                IN  w2 /= w =>
                    /\ YieldsEvent(h)
                       => /\ w2.state = "Watching"
                          /\ w.reply.kind = "Ok"
                    /\ (w.state = "Adding" /\ w2.state = "Watching")
                       => w.reply.kind = "Ok"
                    /\ (/\ w.state = "Adding"
                        /\ w.reply.kind \in {"InvalidInput", "Other"})
                       => w2.state \in {"Failed", "Dropped"}
                    /\ w.state = "Failed" => w2.state \in {"Failed", "Dropped"}
                    /\ w.state = "Watching" => w2.state /= "Adding"
         ]_vars
    /\ [](\A h \in 1..Len(handles) :
             handles[h].reply.kind \in {"InvalidInput", "Other"}
                => handles[h].event_rx = <<>>)

\* one subscription is Watching on its descriptor, and a second one, whose
\* add failed because the path was gone, has returned the error
C30_Witness ==
    /\ Len(handles) = 2
    /\ handles[1].state = "Watching"
    /\ handles[1].reply.kind = "Ok"
    /\ handles[2].state = "Failed"
    /\ handles[2].reply.kind = "Other"

(***************************************************************************)
(* Properties of TextFileSubscriber::check_content.                        *)
(***************************************************************************)
\* the length of the longest prefix of d that is valid UTF-8
BoundaryPrefixLen(d) ==
    CHOOSE k \in 0..Len(d) :
        /\ FromUtf8Ok(SubSeq(d, 1, k))
        /\ \A j \in (k + 1)..Len(d) : ~FromUtf8Ok(SubSeq(d, 1, j))

\* d is text that may end inside a multi-byte sequence: after its longest
\* valid prefix come only a lead byte and fewer continuation bytes than the
\* lead byte announces
TextWithOpenEnd(d) ==
    LET k == BoundaryPrefixLen(d)
    IN  \/ k = Len(d)
        \/ /\ LeadLen(d[k + 1]) > Len(d) - k
           /\ \A j \in (k + 2)..Len(d) : IsCont(d[j])

\* C31: the trimming removes exactly the bytes of an incomplete trailing
\* multi-byte sequence: the data of a chunk is the longest prefix of the
\* bytes read that ends on a code-point boundary (so bytes read that end with
\* a complete character are left as they are), and the position advances by
\* the length of the data.
C31_TrimmingExact ==
    /\ \A i \in 1..Len(sub_chunks) :
          LET c == sub_chunks[i]
          IN  /\ TextWithOpenEnd(c.read)
                    => c.data = SubSeq(c.read, 1, BoundaryPrefixLen(c.read))
              /\ i < Len(sub_chunks)
                    => sub_chunks[i + 1].offset = c.offset + Len(c.data)
    /\ sub_chunks /= <<>>
          => sub_position = sub_chunks[Len(sub_chunks)].offset
                              + Len(sub_chunks[Len(sub_chunks)].data)

(***************************************************************************)
(* Properties of the service loop (run_once).                              *)
(***************************************************************************)
\* the commands a client can send
CommandsSent ==
    {AddWatch(h, path, mask) :
        h \in 1..MaxHandles, path \in SvcPaths, mask \in MaskChoices}
    \cup {RemoveWatch(wd) : wd \in 0..MaxHandles}

Pending(command) ==
    \E i \in 1..Len(command_rx) : command_rx[i] = command

\* C32: every AddWatch or RemoveWatch command sent to a running service is
\* eventually handled by the service loop, also while kernel events keep
\* arriving in every iteration of the loop.
C32_CommandsEventuallyHandled ==
    \A command \in CommandsSent :
        (svc_alive /\ Pending(command)) ~> (~Pending(command) \/ ~svc_alive)

\* C36: when the kernel reports CREATE or MOVED_TO with ISDIR on a watched
\* directory, the event the service forwards to a handle still carries ISDIR,
\* and handle_inotify_event turns it into Updated with is_dir = TRUE.
C36_DirectoryFlagSurvives ==
    [][(/\ TakesEvent
        /\ "ISDIR" \in Head(raw_events).mask
        /\ Head(raw_events).mask \cap {"CREATE", "MOVED_TO"} /= {})
       => \A h \in 1..Len(handles) :
             handles'[h].event_rx /= handles[h].event_rx
             => LET forwarded ==
                       handles'[h].event_rx[Len(handles'[h].event_rx)]
                IN  /\ "ISDIR" \in forwarded.mask
                    /\ HandleInotifyEvent(forwarded)
                          = [action |-> "Notify",
                             event |-> DirUpdated(forwarded.name, TRUE,
                                                  "watcher")]
      ]_vars

\* the number of times wd occurs in the Vec wds
Occurrences(wds, wd) == Cardinality({i \in 1..Len(wds) : wds[i] = wd})

\* C37: the tables of the service are consistent after any sequence of
\* AddWatch and RemoveWatch commands: every subscription id of watches occurs
\* exactly once in the Vec that raw_wd_map holds for its raw descriptor, every
\* id in a Vec of raw_wd_map is a key of watches and occurs in no other Vec,
\* and every id is smaller than next_wd; so the lookups of handle_event and
\* remove_watch find their entries.
C37_TableConsistency ==
    /\ \A wd \in DOMAIN watches :
          /\ watches[wd].raw_wd \in DOMAIN raw_wd_map
          /\ Occurrences(raw_wd_map[watches[wd].raw_wd], wd) = 1
          /\ wd < next_wd
    /\ \A raw_wd \in DOMAIN raw_wd_map :
          \A i \in 1..Len(raw_wd_map[raw_wd]) :
             LET wd == raw_wd_map[raw_wd][i]
             IN  /\ wd \in DOMAIN watches
                 /\ wd < next_wd
                 /\ \A other \in DOMAIN raw_wd_map \ {raw_wd} :
                       Occurrences(raw_wd_map[other], wd) = 0

\* two handles subscribed on the same directory and the first was removed:
\* swap_remove moved the second id to the front of the Vec
C37_Witness ==
    /\ next_wd = 2
    /\ DOMAIN watches = {1}
    /\ raw_wd_map[watches[1].raw_wd] = <<1>>
    /\ command_rx = <<>>
    /\ svc_alive

(***************************************************************************)
(* Properties of the agent's FileState.                                    *)
(***************************************************************************)
\* the rule of the words, stated on one chunk: a word starts at a byte that
\* is ASCII alphanumeric or has its top two bits 11 and ends before the next
\* byte below 0x80 that is not alphanumeric
IsAsciiAlnum(b) == b \in 48..57 \/ b \in 65..90 \/ b \in 97..122
WordByte(b) == IsAsciiAlnum(b) \/ b >= 192
Separator(b) == b < 128 /\ ~IsAsciiAlnum(b)

\* the words of d: the pairs s..e such that d[s] starts a word, no byte
\* between the previous separator (or the start of d) and s could start one,
\* no byte of s+1..e is a separator, and e is the end of d or precedes one
WordsOf(d) ==
    { SubSeq(d, s, e) : <<s, e>> \in
        { x \in (1..Len(d)) \X (1..Len(d)) :
            /\ x[1] <= x[2]
            /\ WordByte(d[x[1]])
            /\ \A k \in 1..(x[1] - 1) :
                   WordByte(d[k]) => \E j \in (k + 1)..(x[1] - 1) : Separator(d[j])
            /\ \A k \in (x[1] + 1)..x[2] : ~Separator(d[k])
            /\ (x[2] = Len(d) \/ Separator(d[x[2] + 1])) } }

\* C4: no false negatives: while the file is not marked binary, every word
\* that lies inside one processed chunk is in the filter.
C4_NoFalseNegatives ==
    ~is_binary =>
        \A i \in 1..Len(processed) :
            \A w \in WordsOf(processed[i]) : w \in cuckoo_filter

\* two chunks were processed, the second holds a multi-byte word and an
\* ASCII word, and both are in the filter
C4_Witness ==
    /\ ~is_binary
    /\ Len(processed) = 2
    /\ processed[2] = <<195, 169>>
    /\ processed[1] = <<97, 32>>
    /\ cuckoo_filter = {<<97>>, <<195, 169>>}

\* C5: binary latch: once is_binary is true it stays true, and every later
\* chunk leaves the filter and the (empty) carry buffer unchanged.
C5_BinaryLatch ==
    /\ [](is_binary => buf = <<>>)
    /\ [][is_binary => (/\ is_binary'
                        /\ cuckoo_filter' = cuckoo_filter
                        /\ buf' = buf)]_vars

\* a chunk of text was processed after the chunk that latched is_binary
C5_Witness ==
    /\ is_binary
    /\ Len(processed) = 2
    /\ processed[1] = <<97, 169>>
    /\ processed[2] = <<97, 97>>
    /\ cuckoo_filter = {}

\* the rule of the words as a function of the byte string d: the runs
\* <<start, word>> (start 0-based) in order, from the 1-based index i on
RECURSIVE RuleRuns(_, _)
RuleRuns(d, i) ==
    IF \A k \in i..Len(d) : ~WordByte(d[k])
    THEN <<>>
    ELSE LET s == CHOOSE k \in i..Len(d) :
                      WordByte(d[k]) /\ \A j \in i..(k - 1) : ~WordByte(d[j])
             e == IF \A k \in (s + 1)..Len(d) : ~Separator(d[k])
                  THEN Len(d)
                  ELSE (CHOOSE k \in (s + 1)..Len(d) :
                            /\ Separator(d[k])
                            /\ \A j \in (s + 1)..(k - 1) : ~Separator(d[j])) - 1
         IN  <<[start |-> s - 1, word |-> SubSeq(d, s, e)]>> \o RuleRuns(d, e + 1)

\* C26: for every byte string, the tokenizer yields exactly the runs of the
\* rule (a word starts at the first byte not yet consumed that is ASCII
\* alphanumeric or has its top two bits 11 and ends before the first later
\* byte below 0x80 that is not alphanumeric, or at the end of the input);
\* the words yielded are not empty, do not overlap and their start offsets
\* increase strictly.
C26_TokenizerRule ==
    /\ tok_done =>
           [i \in 1..Len(tok_items) |->
               [start |-> tok_items[i].start, word |-> tok_items[i].word]]
             = RuleRuns(tok_bytes, 1)
    /\ \A i \in 1..Len(tok_items) :
           /\ tok_items[i].word /= <<>>
           /\ i > 1 => tok_items[i].start >=
                          tok_items[i - 1].start + Len(tok_items[i - 1].word)

\* the bytes of the chunks ss, concatenated
RECURSIVE Concatenated(_)
Concatenated(ss) ==
    IF ss = <<>> THEN <<>> ELSE Head(ss) \o Concatenated(Tail(ss))

\* the words of d whose end has arrived: a separator follows them
CompleteWordsOf(d) ==
    { w \in WordsOf(d) :
        \E s \in 1..Len(d) :
            /\ s + Len(w) <= Len(d)
            /\ SubSeq(d, s, s + Len(w) - 1) = w
            /\ (s = 1 \/ Separator(d[s - 1]))
            /\ Separator(d[s + Len(w)]) }

\* C25: chunking independence: while the file is not marked binary, no
\* fragment of a word is inserted (every inserted word is a word of the
\* concatenated chunks) and every word of the concatenated chunks whose end
\* has arrived is inserted, however the bytes are split into chunks.
C25_ChunkingIndependence ==
    ~is_binary =>
        /\ \A w \in cuckoo_filter : w \in WordsOf(Concatenated(processed))
        /\ \A w \in CompleteWordsOf(Concatenated(processed)) :
               w \in cuckoo_filter

\* C21: the carry buffer is bounded and does not accumulate: after any chunk
\* has been processed, buf holds no more bytes than that chunk brought, so
\* its length does not grow with the number of chunks processed, chunks
\* without any word included.
C21_CarryBufferBounded ==
    processed # <<>> => Len(buf) <= Len(processed[Len(processed)])

\* C27: binary detection within one chunk: when a chunk that is not valid
\* UTF-8 is processed for a file not yet marked binary, is_binary is true
\* after that chunk has been processed.
C27_BinaryDetection ==
    [][(/\ ~is_binary
        /\ Len(processed') = Len(processed) + 1
        /\ ~FromUtf8Ok(processed'[Len(processed')]))
       => is_binary']_vars

====
